---- MODULE Spec2Model ----
(***************************************************************************)
(* invoice_scanner: the Firebase functions that ingest multi-page invoice  *)
(* uploads (session metadata documents in `metadata_invoices`), process a  *)
(* complete session into a supplier invoice record, and keep the payment   *)
(* ledger of that record.                                                  *)
(*                                                                         *)
(* The repository holds two builds of the functions module:                *)
(*   "part_004" = src/unnamed/part_004   (duplicate check, field editing)  *)
(*   "index_js" = src/functions/index.js (FCM notification, no dup. check) *)
(* The variable `build` fixes which one is deployed.                       *)
(*                                                                         *)
(* Firestore transactions (db.runTransaction) are serializable, so each    *)
(* transaction is one atomic action.  Plain ref.update()/ref.set() calls   *)
(* are single atomic writes that do not re-read the document.              *)
(*                                                                         *)
(* Left out: sessions are created by getSignedUploadUrl, which refuses to  *)
(* run without a bucket, so every session has one and the handler's        *)
(* missing-bucket branch is never taken;                                   *)
(* a throw of the write of status error itself escapes the handler and is  *)
(* an aborted invocation, not a step; timestamps are not kept; payment     *)
(* requests carry a paymentDate.  Amounts are fixed-point numbers with     *)
(* ScaleDigits decimals.                                                   *)
(***************************************************************************)
EXTENDS Integers, Sequences, FiniteSets, TLC

\* ------------------------------------------------------------------ bounds
MaxTotalPages == 2      \* largest totalPages a client declares
MaxDeliveries == 2      \* deliveries of one "became ready" change event
MaxPayments == 2        \* payment requests accepted per record

\* ------------------------------------------------------ enumerated inputs
SessionIds == {"s1", "s2"}
Users == {"u1", "u2"}
NoUid == "none"                         \* uid undefined / ownerUid null
Files == {"a", "b"}                     \* sanitized file names of uploads
PageNumbers == 0..(MaxTotalPages + 1)   \* page numbers of upload object names (page-000-.. is 0)
TotalPagesArgs == 0..MaxTotalPages      \* 0 stands for null / undefined

\* ------------------------------------------------------------- constants
INVOICE_STATUS == [pending |-> "pending", ready |-> "ready", processing |-> "processing",
                   done |-> "done", uploaded |-> "uploaded", error |-> "error"]

VARIABLES
  build,          \* which functions module is deployed
  openaiClient,   \* TRUE iff OPENAI_API_KEY was configured at load time
  observe,        \* TRUE iff the answers of requests are recorded in lastCall
  sessions,       \* metadata_invoices/{invoiceId}
  readyEvents,    \* per session: writes that changed status to ready
  deliveries,     \* per session: processInvoiceDocument invocations started
  inv,            \* per session and delivery: the processInvoiceDocument invocation
  suppliers,      \* suppliers/{supplierId}
  records,        \* suppliers/{supplierId}/invoices/{invoiceId}
  artifacts,      \* combined PDFs stored at suppliers/{supplierId}/invoices/{invoiceId}.pdf
  terminalWrites, \* per session: writes of status done or error by processInvoiceDocument
  lastCall        \* the request answered by the most recent step, when observed

vars == <<build, openaiClient, observe, sessions, readyEvents, deliveries, inv, suppliers, records,
          artifacts, terminalWrites, lastCall>>

\* the state of the deployed functions and their stores
config == <<build, openaiClient, observe>>

\* the state of the deployed functions and their stores
system == <<build, openaiClient, sessions, readyEvents, deliveries, inv, suppliers, records,
            artifacts, terminalWrites>>

sessionVars == <<sessions, readyEvents>>
pipelineVars == <<deliveries, inv, suppliers, records, artifacts, terminalWrites>>

NoCall == [op |-> "none"]

NoSession == [exists |-> FALSE, ownerUid |-> NoUid, status |-> "none", totalPages |-> 0,
              uploadedPages |-> {}, pages |-> <<>>, errorMessage |-> "",
              duplicateOf |-> "", processedInvoicePath |-> <<>>]

\* ----------------------------------------------------------------- helpers
\* objectName of an upload: uploads/{invoiceId}/page-{NNN}-{filename}
ObjectName(invoiceId, pageNumber, file) == <<invoiceId, pageNumber, file>>

RECURSIVE FilterOutPage(_, _)
FilterOutPage(pages, n) ==
  IF pages = <<>> THEN <<>>
  ELSE IF Head(pages).pageNumber = n THEN FilterOutPage(Tail(pages), n)
       ELSE <<Head(pages)>> \o FilterOutPage(Tail(pages), n)

\* Array.prototype.sort by pageNumber: insertion into a sorted list, after equal keys
RECURSIVE InsertByPageNumber(_, _)
InsertByPageNumber(pages, e) ==
  IF pages = <<>> THEN <<e>>
  ELSE IF Head(pages).pageNumber <= e.pageNumber
       THEN <<Head(pages)>> \o InsertByPageNumber(Tail(pages), e)
       ELSE <<e>> \o pages

RECURSIVE SortByPageNumber(_)
SortByPageNumber(pages) ==
  IF pages = <<>> THEN <<>>
  ELSE InsertByPageNumber(SortByPageNumber(Tail(pages)), Head(pages))

\* ------------------------------------------------- text and number helpers
\* Strings produced by the recognition service are sequences of characters;
\* null, undefined and "" (all falsy in the source) are the empty sequence.
Digits == {"0", "1", "2", "3", "4", "5", "6", "7", "8", "9"}

DigitValue(c) ==
  CASE c = "0" -> 0 [] c = "1" -> 1 [] c = "2" -> 2 [] c = "3" -> 3 [] c = "4" -> 4
    [] c = "5" -> 5 [] c = "6" -> 6 [] c = "7" -> 7 [] c = "8" -> 8 [] c = "9" -> 9

RECURSIVE KeepChars(_, _)
KeepChars(str, allowed) ==
  IF str = <<>> THEN <<>>
  ELSE IF Head(str) \in allowed THEN <<Head(str)>> \o KeepChars(Tail(str), allowed)
       ELSE KeepChars(Tail(str), allowed)

RECURSIVE DigitsToNat(_, _)
DigitsToNat(str, acc) ==
  IF str = <<>> THEN acc ELSE DigitsToNat(Tail(str), acc * 10 + DigitValue(Head(str)))

\* Amounts are fixed-point numbers with ScaleDigits decimals; NullNum is null/undefined/NaN.
ScaleDigits == 5
Scale == 100000
NullNum == -999999999
EPSILON == 1000                 \* the 0.01 tolerance of the payment checks

IndexOfDot(str) == IF \E i \in 1..Len(str) : str[i] = "."
                   THEN CHOOSE i \in 1..Len(str) : str[i] = "." /\ \A j \in 1..(i-1) : str[j] # "."
                   ELSE 0

\* The fraction digits of a decimal literal, as a number scaled by Scale (truncated).
FractionValue(frac) ==
  LET padded == [i \in 1..ScaleDigits |-> IF i <= Len(frac) THEN frac[i] ELSE "0"]
  IN DigitsToNat(padded, 0)

\* Number(str) for a string of digits, dots and minus signs; NullNum when not finite.
NumberOf(str) ==
  LET neg == str # <<>> /\ Head(str) = "-"
      body == IF neg THEN Tail(str) ELSE str
      dot == IndexOfDot(body)
      intPart == IF dot = 0 THEN body ELSE SubSeq(body, 1, dot - 1)
      fracPart == IF dot = 0 THEN <<>> ELSE SubSeq(body, dot + 1, Len(body))
      wellFormed == /\ \A i \in 1..Len(intPart) : intPart[i] \in Digits
                    /\ \A i \in 1..Len(fracPart) : fracPart[i] \in Digits
                    /\ Len(intPart) + Len(fracPart) > 0
      magnitude == DigitsToNat(intPart, 0) * Scale + FractionValue(fracPart)
  IN IF ~wellFormed THEN NullNum ELSE IF neg THEN 0 - magnitude ELSE magnitude

parseAmount(value) ==
  LET str == KeepChars(value, Digits \cup {".", "-"})
  IN IF str = <<>> THEN NullNum ELSE NumberOf(str)

\* value || 0 on a stored amount
OrZero(n) == IF n = NullNum THEN 0 ELSE n

UpperLetters == <<"A","B","C","D","E","F","G","H","I","J","K","L","M",
                  "N","O","P","Q","R","S","T","U","V","W","X","Y","Z">>
LowerLetters == <<"a","b","c","d","e","f","g","h","i","j","k","l","m",
                  "n","o","p","q","r","s","t","u","v","w","x","y","z">>

LowerCase(c) ==
  IF \E i \in 1..26 : UpperLetters[i] = c
  THEN LowerLetters[CHOOSE i \in 1..26 : UpperLetters[i] = c]
  ELSE c

AlphaNumLower == Digits \cup {LowerLetters[i] : i \in 1..26}

\* .replace(/[^a-z0-9]+/g, '-'): every maximal run of other characters becomes one dash
RECURSIVE DashRuns(_, _)
DashRuns(str, inRun) ==
  IF str = <<>> THEN <<>>
  ELSE IF Head(str) \in AlphaNumLower THEN <<Head(str)>> \o DashRuns(Tail(str), FALSE)
       ELSE IF inRun THEN DashRuns(Tail(str), TRUE)
            ELSE <<"-">> \o DashRuns(Tail(str), TRUE)

RECURSIVE TrimLeadingDashes(_)
TrimLeadingDashes(str) ==
  IF str # <<>> /\ Head(str) = "-" THEN TrimLeadingDashes(Tail(str)) ELSE str

RECURSIVE TrimTrailingDashes(_)
TrimTrailingDashes(str) ==
  IF str # <<>> /\ str[Len(str)] = "-" THEN TrimTrailingDashes(SubSeq(str, 1, Len(str) - 1))
  ELSE str

RECURSIVE TrimSpaces(_)
TrimSpaces(str) ==
  IF str # <<>> /\ Head(str) = " " THEN TrimSpaces(Tail(str))
  ELSE IF str # <<>> /\ str[Len(str)] = " " THEN TrimSpaces(SubSeq(str, 1, Len(str) - 1))
  ELSE str

SANITIZE_MAX == 64

sanitizeId(value, fallback) ==
  IF value = <<>> THEN fallback
  ELSE LET lowered == [i \in 1..Len(TrimSpaces(value)) |-> LowerCase(TrimSpaces(value)[i])]
           dashed == TrimTrailingDashes(TrimLeadingDashes(DashRuns(lowered, FALSE)))
           cut == SubSeq(dashed, 1, IF Len(dashed) < SANITIZE_MAX THEN Len(dashed)
                                    ELSE SANITIZE_MAX)
       IN IF cut = <<>> THEN fallback ELSE cut

UnknownSupplierName == <<"U","n","k","n","o","w","n"," ","S","u","p","p","l","i","e","r">>
UnknownSupplierId == <<"u","n","k","n","o","w","n","-","s","u","p","p","l","i","e","r">>

\* mappedResult.invoiceNumber?.toString().match(/\d+/g)?.join('') || null
InvoiceNumberOf(raw) == KeepChars(raw, Digits)

\* ------------------------------------------------ Invoice Session Manager
\* A declared page count that contradicts the recorded one.
TotalPagesConflict_Ignored(doc, totalPages) == FALSE
TotalPagesConflict(doc, totalPages) ==
  doc.totalPages # 0 /\ totalPages # 0 /\ doc.totalPages # totalPages

\* The transaction body of ensureInvoiceDocument: outcome and document written.
EnsureInvoiceDocumentTx(doc, uid, totalPages) ==
  IF ~doc.exists
  THEN IF totalPages = 0
       THEN [outcome |-> "totalPages_required", doc |-> doc]
       ELSE [outcome |-> "ok",
             doc |-> [NoSession EXCEPT !.exists = TRUE, !.ownerUid = uid,
                                       !.status = INVOICE_STATUS.pending,
                                       !.totalPages = totalPages]]
  ELSE IF TotalPagesConflict(doc, totalPages)
       THEN [outcome |-> "totalPages_mismatch", doc |-> doc]
       ELSE [outcome |-> "ok",
             doc |-> [doc EXCEPT !.totalPages = IF doc.totalPages # 0 THEN doc.totalPages
                                                ELSE totalPages,
                                 !.ownerUid = IF doc.ownerUid # NoUid THEN doc.ownerUid
                                              ELSE uid]]

\* getSignedUploadUrl -> ensureInvoiceDocument, called by an authenticated user.
\* The answer of a session request, as the caller sees it.
EnsureCall(invoiceId, uid, totalPages) ==
  [op |-> "ensureInvoiceDocument", invoiceId |-> invoiceId, uid |-> uid, pageNumber |-> 0,
   totalPages |-> totalPages,
   outcome |-> EnsureInvoiceDocumentTx(sessions[invoiceId], uid, totalPages).outcome]

EnsureInvoiceDocument(invoiceId, uid, totalPages) ==
  LET r == EnsureInvoiceDocumentTx(sessions[invoiceId], uid, totalPages) IN
  /\ sessions' = [sessions EXCEPT ![invoiceId] = r.doc]
  /\ lastCall' = IF observe THEN EnsureCall(invoiceId, uid, totalPages) ELSE NoCall
  /\ UNCHANGED <<config, readyEvents, pipelineVars>>

\* data.ownerUid && uid && data.ownerUid !== uid
OwnerMismatch_Ignored(doc, uid) == FALSE
OwnerMismatch(doc, uid) == doc.ownerUid # NoUid /\ uid # NoUid /\ doc.ownerUid # uid

ShouldMarkReady_AnyStatus(doc, uploadedPages, resolvedTotalPages) ==
  Cardinality(uploadedPages) = resolvedTotalPages
ShouldMarkReady(doc, uploadedPages, resolvedTotalPages) ==
  Cardinality(uploadedPages) = resolvedTotalPages /\ doc.status = INVOICE_STATUS.pending

\* data.totalPages || normalizedTotalPages
ResolvedTotalPages_Supplied(doc, totalPages) ==
  IF totalPages # 0 THEN totalPages ELSE doc.totalPages
ResolvedTotalPages(doc, totalPages) ==
  IF doc.totalPages # 0 THEN doc.totalPages ELSE totalPages

\* new Set(data.uploadedPages).add(normalizedPageNumber)
UploadedPagesAfter_Only(doc, pageNumber) == {pageNumber}
UploadedPagesAfter(doc, pageNumber) == doc.uploadedPages \cup {pageNumber}

\* data.pages without the entry of this page number, the new entry pushed, sorted
PagesAfter_Unfiltered(doc, pageNumber, objectName) ==
  SortByPageNumber(Append(doc.pages, [pageNumber |-> pageNumber, objectName |-> objectName]))
PagesAfter(doc, pageNumber, objectName) ==
  SortByPageNumber(Append(FilterOutPage(doc.pages, pageNumber),
                          [pageNumber |-> pageNumber, objectName |-> objectName]))

\* normalizedPageNumber > resolvedTotalPages
PageExceedsTotal_Never(pageNumber, resolvedTotalPages) == FALSE
PageExceedsTotal(pageNumber, resolvedTotalPages) == pageNumber > resolvedTotalPages

\* normalizePageNumber and the transaction body of registerUploadedPage.
RegisterUploadedPageTx(doc, pageNumber, objectName, totalPages, uid) ==
  LET resolvedTotalPages == ResolvedTotalPages(doc, totalPages)
      uploadedPages == UploadedPagesAfter(doc, pageNumber)
      pages == PagesAfter(doc, pageNumber, objectName)
      shouldMarkReady == ShouldMarkReady(doc, uploadedPages, resolvedTotalPages)
  IN
  IF pageNumber <= 0 THEN [outcome |-> "invalid_pageNumber", doc |-> doc, markedReady |-> FALSE]
  ELSE IF ~doc.exists THEN [outcome |-> "not_found", doc |-> doc, markedReady |-> FALSE]
  ELSE IF OwnerMismatch(doc, uid)
       THEN [outcome |-> "forbidden", doc |-> doc, markedReady |-> FALSE]
  ELSE IF resolvedTotalPages = 0
       THEN [outcome |-> "totalPages_unknown", doc |-> doc, markedReady |-> FALSE]
  ELSE IF totalPages # 0 /\ resolvedTotalPages # totalPages
       THEN [outcome |-> "totalPages_mismatch", doc |-> doc, markedReady |-> FALSE]
  ELSE IF PageExceedsTotal(pageNumber, resolvedTotalPages)
       THEN [outcome |-> "page_exceeds_total", doc |-> doc, markedReady |-> FALSE]
  ELSE [outcome |-> "ok",
        doc |-> [doc EXCEPT !.totalPages = resolvedTotalPages,
                            !.uploadedPages = uploadedPages,
                            !.pages = pages,
                            !.ownerUid = IF doc.ownerUid # NoUid THEN doc.ownerUid ELSE uid,
                            !.status = IF shouldMarkReady THEN INVOICE_STATUS.ready
                                       ELSE doc.status],
        markedReady |-> shouldMarkReady]

RegisterCall(invoiceId, pageNumber, file, totalPages, uid) ==
  [op |-> "registerUploadedPage", invoiceId |-> invoiceId, uid |-> uid,
   pageNumber |-> pageNumber, totalPages |-> totalPages,
   outcome |-> RegisterUploadedPageTx(sessions[invoiceId], pageNumber,
                                      ObjectName(invoiceId, pageNumber, file),
                                      totalPages, uid).outcome]

\* processUploadedInvoice (storage finalize trigger) -> registerUploadedPage.
\* The trigger passes neither uid nor totalPages; the function itself takes both.
RegisterUploadedPage(invoiceId, pageNumber, file, totalPages, uid) ==
  LET r == RegisterUploadedPageTx(sessions[invoiceId], pageNumber,
                                  ObjectName(invoiceId, pageNumber, file), totalPages, uid) IN
  /\ sessions' = [sessions EXCEPT ![invoiceId] = r.doc]
  /\ readyEvents' = [readyEvents EXCEPT ![invoiceId] = @ + (IF r.markedReady THEN 1 ELSE 0)]
  /\ lastCall' = IF observe THEN RegisterCall(invoiceId, pageNumber, file, totalPages, uid)
                 ELSE NoCall
  /\ UNCHANGED <<config, pipelineVars>>

\* --------------------------------------------------- recognition results
\* What runInvoiceOcr returns after FIELD_LABELS mapping (mappedResult).
OcrResults ==
  { [supplierName |-> <<"A","c","m","e">>, supplierTaxNumber |-> <<"0","9","4">>,
     supplierCategory |-> <<>>, invoiceNumber |-> <<"A","-","1","7">>,
     totalAmount |-> <<"1","0","0",".","0","0">>],
    [supplierName |-> <<>>, supplierTaxNumber |-> <<>>,
     supplierCategory |-> <<>>, invoiceNumber |-> <<>>,
     totalAmount |-> <<"n","/","a">>] }

NoOcr == [supplierName |-> <<>>, supplierTaxNumber |-> <<>>, supplierCategory |-> <<>>,
          invoiceNumber |-> <<>>, totalAmount |-> <<>>]

SupplierNameOf(o) == IF o.supplierName # <<>> THEN o.supplierName ELSE UnknownSupplierName

SupplierIdOf(o) ==
  sanitizeId(o.supplierTaxNumber, sanitizeId(SupplierNameOf(o), UnknownSupplierId))

SupplierIds == {SupplierIdOf(o) : o \in OcrResults}

PAYMENT_STATUS == [unpaid |-> "unpaid", paid |-> "paid", partiallyPaid |-> "partially_paid"]

NoSupplier == [exists |-> FALSE, name |-> <<>>, supplierCategory |-> <<>>,
               supplierTaxNumber |-> <<>>]

NoRecord == [exists |-> FALSE, invoiceId |-> "", rawFilePaths |-> <<>>, uploadedBy |-> NoUid,
             supplierName |-> <<>>, supplierTaxNumber |-> <<>>, invoiceNumber |-> <<>>,
             totalAmount |-> NullNum, paymentStatus |-> "", paidAmount |-> NullNum,
             unpaidAmount |-> NullNum, paymentHistory |-> <<>>, lastEditedBy |-> NoUid]

Deliveries == 1..MaxDeliveries

\* pc: the handler's position.  pages, totalPages, ownerUid: lockedSnapshot.  ocr: mappedResult.
\* lock, stepFailed and duplicateAtExtraction record what happened to the invocation:
\*   lock                  how its start ended ("skipped": the handler returned before the lock)
\*   stepFailed            a step between the lock and the done write threw or failed a check
\*   duplicateAtExtraction the id of a record of the same supplier and number that existed
\*                         when the recognition result arrived, "" when there was none
\*   rerun                 when the recognition result arrived, the session had exactly one
\*                         record, written by an earlier invocation from the same result
NoInvocation == [pc |-> "idle", lock |-> "none", stepFailed |-> FALSE,
                 duplicateAtExtraction |-> "", rerun |-> FALSE, pages |-> <<>>,
                 totalPages |-> 0, ownerUid |-> NoUid, ocr |-> NoOcr]

\* ------------------------------------------------- Processing Orchestrator
\* change.after.ref.update({status, errorMessage, ...}): a blind write of the status fields
WriteError(doc, message) == [doc EXCEPT !.status = INVOICE_STATUS.error, !.errorMessage = message]

Finished(i) == [NoInvocation EXCEPT !.pc = "finished", !.lock = i.lock,
                                    !.stepFailed = i.stepFailed,
                                    !.duplicateAtExtraction = i.duplicateAtExtraction,
                                    !.rerun = i.rerun]

\* The handler runs for a change event whose after.status is ready and differs from
\* before.status; readyEvents counts these events, each delivered at least once.
CanDeliver(s, k) ==
  /\ readyEvents[s] > 0
  /\ k = deliveries[s] + 1
  /\ k <= MaxDeliveries * readyEvents[s]
  /\ k \in Deliveries

\* OPENAI_API_KEY missing: the handler writes error before taking the lock.
StartWithoutOpenAi(s, k) ==
  /\ CanDeliver(s, k)
  /\ ~openaiClient
  /\ deliveries' = [deliveries EXCEPT ![s] = k]
  /\ sessions' = [sessions EXCEPT ![s] = WriteError(@, "openai_key_missing")]
  /\ terminalWrites' = [terminalWrites EXCEPT ![s] = @ + 1]
  /\ inv' = [inv EXCEPT ![s][k] = Finished([@ EXCEPT !.lock = "skipped"])]
  /\ lastCall' = NoCall
  /\ UNCHANGED <<config, readyEvents, suppliers, records, artifacts>>

\* The lock transaction throws: logged, the invocation returns.
LockFails(s, k) ==
  /\ CanDeliver(s, k)
  /\ openaiClient
  /\ deliveries' = [deliveries EXCEPT ![s] = k]
  /\ inv' = [inv EXCEPT ![s][k] = Finished([@ EXCEPT !.lock = "failed"])]
  /\ lastCall' = NoCall
  /\ UNCHANGED <<config, sessionVars, suppliers, records, artifacts,
                 terminalWrites>>

\* The lock transaction finds the status is no longer ready and returns null.
LockDeclined(s, k) ==
  /\ CanDeliver(s, k)
  /\ openaiClient
  /\ sessions[s].status # INVOICE_STATUS.ready
  /\ deliveries' = [deliveries EXCEPT ![s] = k]
  /\ inv' = [inv EXCEPT ![s][k] = Finished([@ EXCEPT !.lock = "declined"])]
  /\ lastCall' = NoCall
  /\ UNCHANGED <<config, sessionVars, suppliers, records, artifacts,
                 terminalWrites>>

\* The lock transaction reads status ready and writes processing.
LockAcquired(s, k) ==
  /\ CanDeliver(s, k)
  /\ openaiClient
  /\ sessions[s].status = INVOICE_STATUS.ready
  /\ deliveries' = [deliveries EXCEPT ![s] = k]
  /\ sessions' = [sessions EXCEPT ![s].status = INVOICE_STATUS.processing,
                                  ![s].errorMessage = ""]
  /\ inv' = [inv EXCEPT ![s][k] = [NoInvocation EXCEPT !.pc = "locked", !.lock = "acquired",
                                     !.pages = SortByPageNumber(sessions[s].pages),
                                     !.totalPages = sessions[s].totalPages,
                                     !.ownerUid = sessions[s].ownerUid]]
  /\ lastCall' = NoCall
  /\ UNCHANGED <<config, readyEvents, suppliers, records, artifacts,
                 terminalWrites>>

\* The invocation ends after writing status error.
FailWith(s, k, message) ==
  /\ sessions' = [sessions EXCEPT ![s] = WriteError(@, message)]
  /\ terminalWrites' = [terminalWrites EXCEPT ![s] = @ + 1]
  /\ inv' = [inv EXCEPT ![s][k] = Finished([@ EXCEPT !.stepFailed = TRUE])]
  /\ lastCall' = NoCall
  /\ UNCHANGED <<config, readyEvents, deliveries, suppliers, records, artifacts>>

PageCheckMessage(i) ==
  IF Len(i.pages) = 0 THEN "no_pages"
  ELSE IF i.totalPages # 0 /\ Len(i.pages) # i.totalPages THEN "page_count_mismatch"
  ELSE ""

\* Page checks on the locked snapshot, buildCombinedPdfFromPages and runInvoiceOcr:
\* a check fails, or a download / the recognition (after its retries) throws.
ExtractFails(s, k) ==
  /\ inv[s][k].pc = "locked"
  /\ FailWith(s, k, IF PageCheckMessage(inv[s][k]) # "" THEN PageCheckMessage(inv[s][k])
                    ELSE "processing_failed")

\* Firestore returns query results ordered by document id.
SessionOrder == <<"s1", "s2">>
IndexOfSession(s) == CHOOSE n \in 1..Len(SessionOrder) : SessionOrder[n] = s

\* suppliers/{supplierId}/invoices where invoiceNumber == n
DuplicateMatches(supplierId, invoiceNumber) ==
  {t \in SessionIds : records[<<supplierId, t>>].exists
                      /\ records[<<supplierId, t>>].invoiceNumber = invoiceNumber}

FirstMatch(matches) ==
  CHOOSE t \in matches : \A u \in matches : IndexOfSession(t) <= IndexOfSession(u)

\* The record of another session that already carries the supplier and number of a
\* recognition result, "" when there is none or the number is unknown.
ExistingDuplicate(s, o) ==
  LET matches == DuplicateMatches(SupplierIdOf(o), InvoiceNumberOf(o.invoiceNumber)) \ {s} IN
  IF InvoiceNumberOf(o.invoiceNumber) # <<>> /\ matches # {} THEN FirstMatch(matches) ELSE ""

\* The session has exactly one record, and it holds what processing writes from the
\* recognition result o.
RecordedFrom(s, o) ==
  LET r == records[<<SupplierIdOf(o), s>>] IN
  /\ {id \in SupplierIds : records[<<id, s>>].exists} = {SupplierIdOf(o)}
  /\ r.supplierName = SupplierNameOf(o)
  /\ r.supplierTaxNumber = o.supplierTaxNumber
  /\ r.invoiceNumber = InvoiceNumberOf(o.invoiceNumber)
  /\ r.totalAmount = parseAmount(o.totalAmount)

ExtractOk(s, k, o) ==
  /\ inv[s][k].pc = "locked"
  /\ PageCheckMessage(inv[s][k]) = ""
  /\ inv' = [inv EXCEPT ![s][k].pc = "extracted", ![s][k].ocr = o,
                         ![s][k].duplicateAtExtraction = ExistingDuplicate(s, o),
                         ![s][k].rerun = RecordedFrom(s, o)]
  /\ lastCall' = NoCall
  /\ UNCHANGED <<config, sessionVars, deliveries, suppliers, records, artifacts,
                 terminalWrites>>

\* The transaction body of ensureSupplierProfile (supplierId is never empty here).
EnsureSupplierProfileTx_Overwrite(current, supplierName, supplierTaxNumber, supplierCategory) ==
  [exists |-> TRUE,
   name |-> IF supplierName # <<>> THEN supplierName ELSE current.name,
   supplierCategory |-> IF supplierCategory # <<>> THEN supplierCategory
                        ELSE current.supplierCategory,
   supplierTaxNumber |-> IF supplierTaxNumber # <<>> THEN supplierTaxNumber
                         ELSE current.supplierTaxNumber]
EnsureSupplierProfileTx(current, supplierName, supplierTaxNumber, supplierCategory) ==
  IF ~current.exists
  THEN [exists |-> TRUE, name |-> supplierName, supplierCategory |-> supplierCategory,
        supplierTaxNumber |-> supplierTaxNumber]
  ELSE [current EXCEPT
          !.name = IF current.name = <<>> /\ supplierName # <<>> THEN supplierName ELSE @,
          !.supplierCategory = IF current.supplierCategory = <<>> /\ supplierCategory # <<>>
                               THEN supplierCategory ELSE @,
          !.supplierTaxNumber = IF current.supplierTaxNumber = <<>> /\ supplierTaxNumber # <<>>
                                THEN supplierTaxNumber ELSE @]

AfterProfilePc == IF build = "part_004" THEN "profiled" ELSE "checked"

EnsureSupplierProfile(s, k) ==
  LET o == inv[s][k].ocr
      id == SupplierIdOf(o) IN
  /\ inv[s][k].pc = "extracted"
  /\ suppliers' = [suppliers EXCEPT ![id] =
                     EnsureSupplierProfileTx(@, SupplierNameOf(o), o.supplierTaxNumber,
                                             o.supplierCategory)]
  /\ inv' = [inv EXCEPT ![s][k].pc = AfterProfilePc]
  /\ lastCall' = NoCall
  /\ UNCHANGED <<config, sessionVars, deliveries, records, artifacts,
                 terminalWrites>>

\* The supplier transaction throws: ensureSupplierProfile logs it and returns.
EnsureSupplierProfileFails(s, k) ==
  /\ inv[s][k].pc = "extracted"
  /\ inv' = [inv EXCEPT ![s][k].pc = AfterProfilePc, ![s][k].stepFailed = TRUE]
  /\ lastCall' = NoCall
  /\ UNCHANGED <<config, sessionVars, deliveries, suppliers, records, artifacts,
                 terminalWrites>>

\* Duplicate check of build part_004: when the number is known and a record of the same
\* supplier carries it, the session is marked error and the invocation returns.
DuplicateCheck(s, k) ==
  LET o == inv[s][k].ocr
      matches == DuplicateMatches(SupplierIdOf(o), InvoiceNumberOf(o.invoiceNumber))
      found == InvoiceNumberOf(o.invoiceNumber) # <<>> /\ matches # {} IN
  /\ inv[s][k].pc = "profiled"
  /\ sessions' = IF found
                 THEN [sessions EXCEPT ![s] = [WriteError(@, "duplicate") EXCEPT
                                                 !.duplicateOf = FirstMatch(matches)]]
                 ELSE sessions
  /\ terminalWrites' = [terminalWrites EXCEPT ![s] = @ + (IF found THEN 1 ELSE 0)]
  /\ inv' = [inv EXCEPT ![s][k] = IF found THEN Finished([@ EXCEPT !.stepFailed = TRUE])
                                  ELSE [@ EXCEPT !.pc = "checked"]]
  /\ lastCall' = NoCall
  /\ UNCHANGED <<config, readyEvents, deliveries, suppliers, records, artifacts>>

\* The duplicate query throws: the enclosing handler writes error.
DuplicateQueryFails(s, k) ==
  /\ inv[s][k].pc = "profiled"
  /\ InvoiceNumberOf(inv[s][k].ocr.invoiceNumber) # <<>>
  /\ FailWith(s, k, "processing_failed")

\* The combined PDF is saved, or the save throws, which is logged and ignored.
SaveCombinedPdf(s, k, stored) ==
  /\ inv[s][k].pc = "checked"
  /\ artifacts' = IF stored THEN artifacts \cup {<<SupplierIdOf(inv[s][k].ocr), s>>}
                  ELSE artifacts
  /\ inv' = [inv EXCEPT ![s][k].pc = "saved", ![s][k].stepFailed = @ \/ ~stored]
  /\ lastCall' = NoCall
  /\ UNCHANGED <<config, sessionVars, deliveries, suppliers, records,
                 terminalWrites>>

RECURSIVE ObjectNames(_)
ObjectNames(pages) ==
  IF pages = <<>> THEN <<>> ELSE <<Head(pages).objectName>> \o ObjectNames(Tail(pages))

MergeInvoicePayload_Nothing(current, s, i) == current
\* invoiceDocRef.set(invoicePayload, {merge: true}): payload fields overwrite, others stay.
MergeInvoicePayload(current, s, i) ==
  [current EXCEPT !.exists = TRUE,
                  !.invoiceId = s,
                  !.rawFilePaths = ObjectNames(i.pages),
                  !.uploadedBy = i.ownerUid,
                  !.supplierName = SupplierNameOf(i.ocr),
                  !.supplierTaxNumber = i.ocr.supplierTaxNumber,
                  !.invoiceNumber = InvoiceNumberOf(i.ocr.invoiceNumber),
                  !.totalAmount = parseAmount(i.ocr.totalAmount),
                  !.paymentStatus = PAYMENT_STATUS.unpaid,
                  !.unpaidAmount = parseAmount(i.ocr.totalAmount)]

SetInvoiceRecord(s, k) ==
  LET key == <<SupplierIdOf(inv[s][k].ocr), s>> IN
  /\ inv[s][k].pc = "saved"
  /\ records' = [records EXCEPT ![key] = MergeInvoicePayload(@, s, inv[s][k])]
  /\ inv' = [inv EXCEPT ![s][k].pc = "recorded"]
  /\ lastCall' = NoCall
  /\ UNCHANGED <<config, sessionVars, deliveries, suppliers, artifacts,
                 terminalWrites>>

SetInvoiceRecordFails(s, k) ==
  /\ inv[s][k].pc = "saved"
  /\ FailWith(s, k, "processing_failed")

\* change.after.ref.update({status: done, processedInvoicePath, ...})
MarkDone(s, k) ==
  LET notifies == build = "index_js" /\ inv[s][k].ownerUid # NoUid IN
  /\ inv[s][k].pc = "recorded"
  /\ sessions' = [sessions EXCEPT ![s].status = INVOICE_STATUS.done,
                                  ![s].errorMessage = "",
                                  ![s].processedInvoicePath =
                                      <<SupplierIdOf(inv[s][k].ocr), s>>]
  /\ terminalWrites' = [terminalWrites EXCEPT ![s] = @ + 1]
  /\ inv' = [inv EXCEPT ![s][k] = IF notifies THEN [@ EXCEPT !.pc = "notify"]
                                  ELSE Finished(@)]
  /\ lastCall' = NoCall
  /\ UNCHANGED <<config, readyEvents, deliveries, suppliers, records, artifacts>>

MarkDoneFails(s, k) ==
  /\ inv[s][k].pc = "recorded"
  /\ FailWith(s, k, "processing_failed")

\* sendInvoiceNotification of build index_js returns.
NotifySent(s, k) ==
  /\ inv[s][k].pc = "notify"
  /\ inv' = [inv EXCEPT ![s][k] = Finished(@)]
  /\ lastCall' = NoCall
  /\ UNCHANGED <<config, sessionVars, deliveries, suppliers, records, artifacts,
                 terminalWrites>>

\* sendInvoiceNotification throws (its user lookup is outside any try): the call sits in
\* the try block of the handler, whose catch writes status error.
NotifyFails(s, k) ==
  /\ inv[s][k].pc = "notify"
  /\ sessions' = [sessions EXCEPT ![s] = WriteError(@, "processing_failed")]
  /\ terminalWrites' = [terminalWrites EXCEPT ![s] = @ + 1]
  /\ inv' = [inv EXCEPT ![s][k] = Finished(@)]
  /\ lastCall' = NoCall
  /\ UNCHANGED <<config, readyEvents, deliveries, suppliers, records, artifacts>>

ProcessInvoiceDocument(s, k) ==
  \/ StartWithoutOpenAi(s, k)
  \/ LockFails(s, k)
  \/ LockDeclined(s, k)
  \/ LockAcquired(s, k)
  \/ ExtractFails(s, k)
  \/ \E o \in OcrResults : ExtractOk(s, k, o)
  \/ EnsureSupplierProfile(s, k)
  \/ EnsureSupplierProfileFails(s, k)
  \/ DuplicateCheck(s, k)
  \/ DuplicateQueryFails(s, k)
  \/ \E stored \in BOOLEAN : SaveCombinedPdf(s, k, stored)
  \/ SetInvoiceRecord(s, k)
  \/ SetInvoiceRecordFails(s, k)
  \/ MarkDone(s, k)
  \/ MarkDoneFails(s, k)
  \/ NotifySent(s, k)
  \/ NotifyFails(s, k)

\* The start of an invocation (trigger filters, key check, lock transaction) and its
\* later steps, for the scheduling assumptions.
StartInvocation(s, k) ==
  StartWithoutOpenAi(s, k) \/ LockFails(s, k) \/ LockDeclined(s, k) \/ LockAcquired(s, k)

ContinueInvocation(s, k) ==
  /\ inv[s][k].pc \notin {"idle", "finished"}
  /\ ProcessInvoiceDocument(s, k)

\* ----------------------------------------------------------- Payment Ledger
NoAmount == NullNum                      \* body.amount undefined

\* Amounts a client sends: none, zero, negative, parts of 100.00, and a final part that
\* exceeds the balance by exactly 0.01 and by 0.02.
PaymentAmounts == {NoAmount, 0, 0 - 40 * Scale, 40 * Scale, 60 * Scale,
                   60 * Scale + EPSILON, 60 * Scale + 2 * EPSILON}

PaymentActions == {"pay", "partial"}

\* validatePaymentRequest, the checks on action and amount
PaymentRequestValid(action, amount) ==
  /\ action \in {"pay", "partial"}
  /\ action = "partial" => (amount # NoAmount /\ amount > 0)
  /\ amount # NoAmount => amount >= 0

derivePaymentStatus_Strict(paidAmount, totalAmount) ==
  IF totalAmount = NullNum \/ totalAmount = 0 \/ totalAmount <= 0
  THEN IF paidAmount > 0 THEN PAYMENT_STATUS.partiallyPaid ELSE PAYMENT_STATUS.unpaid
  ELSE IF paidAmount > totalAmount THEN PAYMENT_STATUS.paid
  ELSE IF paidAmount > 0 THEN PAYMENT_STATUS.partiallyPaid
  ELSE PAYMENT_STATUS.unpaid
derivePaymentStatus(paidAmount, totalAmount) ==
  IF totalAmount = NullNum \/ totalAmount = 0 \/ totalAmount <= 0
  THEN IF paidAmount > 0 THEN PAYMENT_STATUS.partiallyPaid ELSE PAYMENT_STATUS.unpaid
  ELSE IF paidAmount >= totalAmount THEN PAYMENT_STATUS.paid
  ELSE IF paidAmount > 0 THEN PAYMENT_STATUS.partiallyPaid
  ELSE PAYMENT_STATUS.unpaid

Max(a, b) == IF a >= b THEN a ELSE b

\* totalAmount > 0 && paymentAmount > currentUnpaidAmount + 0.01
ExceedsBalance_Loose(totalAmount, paymentAmount, currentUnpaidAmount) ==
  totalAmount > 0 /\ paymentAmount > currentUnpaidAmount + 2 * EPSILON
ExceedsBalance(totalAmount, paymentAmount, currentUnpaidAmount) ==
  totalAmount > 0 /\ paymentAmount > currentUnpaidAmount + EPSILON

\* FieldValue.arrayUnion(paymentEntry): the entry carries recordedAt: Timestamp.now(),
\* which no earlier entry has, so it is added at the end.
AppendPaymentEntry_Replace(paymentHistory, paymentEntry) == <<paymentEntry>>
AppendPaymentEntry(paymentHistory, paymentEntry) == Append(paymentHistory, paymentEntry)

\* invoiceData.uploadedBy && invoiceData.uploadedBy !== user.uid
NotRecordOwner_Never(invoiceData, uid) == FALSE
NotRecordOwner(invoiceData, uid) ==
  invoiceData.uploadedBy # NoUid /\ invoiceData.uploadedBy # uid

\* The request validation and transaction body of updatePaymentStatus.
UpdatePaymentStatusTx(invoiceData, uid, action, amount) ==
  LET totalAmount == OrZero(invoiceData.totalAmount)
      currentPaidAmount == OrZero(invoiceData.paidAmount)
      currentUnpaidAmount == totalAmount - currentPaidAmount
      paymentAmount == IF action = "pay"
                       THEN IF amount # NoAmount THEN amount ELSE currentUnpaidAmount
                       ELSE amount
      newPaidAmount == currentPaidAmount + paymentAmount
      paymentEntry == [amount |-> paymentAmount, recordedBy |-> uid]
  IN
  IF ~PaymentRequestValid(action, amount)
  THEN [outcome |-> "invalid_request", doc |-> invoiceData]
  ELSE IF ~invoiceData.exists
  THEN [outcome |-> "not_found", doc |-> invoiceData]
  ELSE IF NotRecordOwner(invoiceData, uid)
  THEN [outcome |-> "forbidden", doc |-> invoiceData]
  ELSE IF ExceedsBalance(totalAmount, paymentAmount, currentUnpaidAmount)
  THEN [outcome |-> "exceeds_balance", doc |-> invoiceData]
  ELSE IF invoiceData.paymentStatus = PAYMENT_STATUS.paid
  THEN [outcome |-> "already_paid", doc |-> invoiceData]
  ELSE [outcome |-> "ok",
        doc |-> [invoiceData EXCEPT
                   !.paymentStatus = derivePaymentStatus(newPaidAmount, totalAmount),
                   !.paidAmount = newPaidAmount,
                   !.unpaidAmount = Max(0, totalAmount - newPaidAmount),
                   !.paymentHistory = AppendPaymentEntry(@, paymentEntry)]]

PaymentCall(supplierId, invoiceId, uid, action, amount) ==
  [op |-> "updatePaymentStatus", supplierId |-> supplierId, invoiceId |-> invoiceId,
   uid |-> uid, action |-> action, amount |-> amount,
   outcome |-> UpdatePaymentStatusTx(records[<<supplierId, invoiceId>>], uid, action,
                                     amount).outcome]

UpdatePaymentStatus(supplierId, invoiceId, uid, action, amount) ==
  LET key == <<supplierId, invoiceId>>
      r == UpdatePaymentStatusTx(records[key], uid, action, amount) IN
  /\ r.outcome = "ok" => Len(records[key].paymentHistory) < MaxPayments
  /\ records' = [records EXCEPT ![key] = r.doc]
  /\ lastCall' = IF observe THEN PaymentCall(supplierId, invoiceId, uid, action, amount)
                 ELSE NoCall
  /\ UNCHANGED <<config, sessionVars, deliveries, inv, suppliers, artifacts,
                 terminalWrites>>

\* ------------------------------------------------------- Invoice field edits
EDITABLE_INVOICE_FIELDS ==
  {"supplierName", "supplierTaxNumber", "invoiceNumber", "invoiceDate", "dueDate",
   "totalAmount", "netAmount", "vatAmount", "vatRate", "paidAmount"}

\* body.fields: keys are the properties the object has (Object.keys), the other
\* components their values where present.
Fields(keys, totalAmount, paidAmount, invoiceNumber) ==
  [keys |-> keys, totalAmount |-> totalAmount, paidAmount |-> paidAmount,
   invoiceNumber |-> invoiceNumber]

\* Patches a client sends: an empty one, a corrected invoice number, a currency (which
\* the validator type-checks but the list of editable fields lacks), a total or a paid
\* amount alone, among them a negative number and a value that is not a number
\* (NullNum), and both together with the paid amount 0.01 above the total.
PatchTotals == {NullNum, 0 - 40 * Scale, 40 * Scale}
PatchPaids == {40 * Scale + 2 * EPSILON}

FieldPatches ==
  {Fields({}, 0, 0, <<>>), Fields({"invoiceNumber"}, 0, 0, <<"B", "-", "2">>),
   Fields({"currency"}, 0, 0, <<>>)}
    \cup {Fields({"totalAmount"}, t, 0, <<>>) : t \in PatchTotals}
    \cup {Fields({"paidAmount"}, 0, p, <<>>) : p \in PatchPaids}
    \cup {Fields({"totalAmount", "paidAmount"}, 40 * Scale, 40 * Scale + EPSILON, <<>>)}

\* validateUpdateFieldsRequest, the checks on fields
UpdateFieldsRequestValid(fields) ==
  /\ \A f \in {"totalAmount", "paidAmount"} :
       f \in fields.keys => fields[f] # NullNum /\ fields[f] >= 0
  /\ fields.keys \subseteq EDITABLE_INVOICE_FIELDS

\* newPaidAmount > newTotalAmount + 0.01
PaidExceedsTotal(newPaidAmount, newTotalAmount) ==
  newPaidAmount > newTotalAmount + EPSILON

\* db.runTransaction: the update buffered by tx.update is written when the callback
\* returns, and nothing is written when it throws.
Committed_Always(outcome, invoiceData, updated) == updated
Committed(outcome, invoiceData, updated) ==
  IF outcome = "ok" THEN updated ELSE invoiceData

\* The request validation and transaction body of updateInvoiceFields; doc is the
\* record with the updates object applied.
UpdateInvoiceFieldsTx(invoiceData, uid, fields) ==
  LET currentTotalAmount == OrZero(invoiceData.totalAmount)
      currentPaidAmount == OrZero(invoiceData.paidAmount)
      newTotalAmount == IF "totalAmount" \in fields.keys THEN fields.totalAmount
                        ELSE currentTotalAmount
      newPaidAmount == IF "paidAmount" \in fields.keys THEN fields.paidAmount
                       ELSE currentPaidAmount
      amountsChanged == "totalAmount" \in fields.keys \/ "paidAmount" \in fields.keys
      updates ==
        [invoiceData EXCEPT
           !.lastEditedBy = uid,
           !.invoiceNumber = IF "invoiceNumber" \in fields.keys THEN fields.invoiceNumber
                             ELSE @,
           !.totalAmount = IF "totalAmount" \in fields.keys THEN newTotalAmount ELSE @,
           !.paidAmount = IF "paidAmount" \in fields.keys THEN newPaidAmount ELSE @,
           !.unpaidAmount = IF amountsChanged THEN Max(0, newTotalAmount - newPaidAmount)
                            ELSE @,
           !.paymentStatus = IF amountsChanged
                             THEN derivePaymentStatus(newPaidAmount, newTotalAmount)
                             ELSE @]
  IN
  [outcome |-> IF ~UpdateFieldsRequestValid(fields) THEN "invalid_request"
               ELSE IF ~invoiceData.exists THEN "not_found"
               ELSE IF amountsChanged /\ PaidExceedsTotal(newPaidAmount, newTotalAmount)
               THEN "paid_exceeds_total"
               ELSE "ok",
   doc |-> updates]

FieldsCall(supplierId, invoiceId, uid, fields) ==
  [op |-> "updateInvoiceFields", supplierId |-> supplierId, invoiceId |-> invoiceId,
   uid |-> uid, fields |-> fields,
   outcome |-> UpdateInvoiceFieldsTx(records[<<supplierId, invoiceId>>], uid,
                                     fields).outcome]

UpdateInvoiceFields(supplierId, invoiceId, uid, fields) ==
  LET key == <<supplierId, invoiceId>>
      r == UpdateInvoiceFieldsTx(records[key], uid, fields) IN
  /\ records' = [records EXCEPT ![key] = Committed(r.outcome, @, r.doc)]
  /\ lastCall' = IF observe THEN FieldsCall(supplierId, invoiceId, uid, fields)
                 ELSE NoCall
  /\ UNCHANGED <<config, sessionVars, deliveries, inv, suppliers, artifacts,
                 terminalWrites>>

\* ------------------------------------------- Payments in binary64 arithmetic
\* JavaScript numbers are IEEE 754 binary64 values.  A number other than zero is a sign,
\* a significand m of PrecisionBits bits (most significant first, m[1] = 1) and the
\* exponent e of its last bit: its value is m * 2^e.  Zero has the empty significand.
\* Amounts of money are far from the ends of the exponent range, so there are no
\* subnormal numbers, infinities or NaN here.
PrecisionBits == 53

FloatZero == [neg |-> FALSE, m |-> <<>>, e |-> 0]

Zeros(n) == [i \in 1..n |-> 0]

PadLeft(bits, n) == Zeros(n - Len(bits)) \o bits

StripLeadingZeros(bits) ==
  LET ones == {i \in 1..Len(bits) : bits[i] = 1}
  IN IF ones = {} THEN <<>>
     ELSE SubSeq(bits, CHOOSE i \in ones : \A j \in ones : i <= j, Len(bits))

RECURSIVE NatBits(_)
NatBits(n) == IF n = 0 THEN <<>> ELSE Append(NatBits(n \div 2), n % 2)

\* Binary addition of the bits lo..hi of a and b, which have the same length, for either
\* carry into the last bit: the sum bits s[c] and the carry c[c] out of the first bit.
\* The range is halved at each step, so the nesting is logarithmic in its length.
RECURSIVE AddBits(_, _, _, _)
AddBits(a, b, lo, hi) ==
  IF lo = hi
  THEN [s |-> [carry \in {0, 1} |-> <<(a[lo] + b[lo] + carry) % 2>>],
        c |-> [carry \in {0, 1} |-> (a[lo] + b[lo] + carry) \div 2]]
  ELSE LET mid == (lo + hi) \div 2
           high == AddBits(a, b, lo, mid)
           low == AddBits(a, b, mid + 1, hi)
       IN [s |-> [carry \in {0, 1} |-> high.s[low.c[carry]] \o low.s[carry]],
           c |-> [carry \in {0, 1} |-> high.c[low.c[carry]]]]

Complement(bits) == [i \in 1..Len(bits) |-> 1 - bits[i]]

BitsSum(a, b) ==
  LET n == Max(Len(a), Len(b))
      r == AddBits(PadLeft(a, n), PadLeft(b, n), 1, n)
  IN IF n = 0 THEN <<>> ELSE StripLeadingZeros(<<r.c[0]>> \o r.s[0])

\* a - b, for a >= b: a plus the complement of b plus one, without the carry out
BitsDifference(a, b) ==
  LET n == Max(Len(a), Len(b))
      r == AddBits(PadLeft(a, n), Complement(PadLeft(b, n)), 1, n)
  IN IF n = 0 THEN <<>> ELSE StripLeadingZeros(r.s[1])

BitsLess(a, b) ==
  LET n == Max(Len(a), Len(b))
      x == PadLeft(a, n)
      y == PadLeft(b, n)
  IN \E i \in 1..n : x[i] < y[i] /\ \A j \in 1..(i - 1) : x[j] = y[j]

\* The binary64 value nearest to bits * 2^e (plus a nonzero rest below the last bit when
\* sticky), ties to the even significand.
RoundToNearestEven(neg, bits, e, sticky) ==
  LET b == StripLeadingZeros(bits)
      n == Len(b)
      kept == SubSeq(b, 1, PrecisionBits)
      rest == SubSeq(b, PrecisionBits + 1, n)
      below == sticky \/ \E i \in 2..Len(rest) : rest[i] = 1
      roundUp == rest[1] = 1 /\ (below \/ kept[PrecisionBits] = 1)
      up == BitsSum(kept, <<1>>)
  IN
  IF b = <<>> THEN FloatZero
  ELSE IF n <= PrecisionBits
  THEN [neg |-> neg, m |-> b \o Zeros(PrecisionBits - n), e |-> e - (PrecisionBits - n)]
  ELSE IF ~roundUp THEN [neg |-> neg, m |-> kept, e |-> e + Len(rest)]
  ELSE IF Len(up) = PrecisionBits THEN [neg |-> neg, m |-> up, e |-> e + Len(rest)]
  ELSE [neg |-> neg, m |-> SubSeq(up, 1, PrecisionBits), e |-> e + Len(rest) + 1]

\* The first k bits after the binary point of r / 100, for r < 100, and what is left.
RECURSIVE FractionBits(_, _)
FractionBits(r, k) ==
  IF k = 0 THEN <<>>
  ELSE IF 2 * r >= 100 THEN <<1>> \o FractionBits(2 * r - 100, k - 1)
  ELSE <<0>> \o FractionBits(2 * r, k - 1)

RECURSIVE FractionRest(_, _)
FractionRest(r, k) ==
  IF k = 0 THEN r
  ELSE IF 2 * r >= 100 THEN FractionRest(2 * r - 100, k - 1)
  ELSE FractionRest(2 * r, k - 1)

FractionLength == 60

\* Number("0.21"), and a JSON number 0.21: the binary64 value nearest to cents / 100.
FromCents(cents) ==
  RoundToNearestEven(FALSE,
                     NatBits(cents \div 100) \o FractionBits(cents % 100, FractionLength),
                     0 - FractionLength,
                     FractionRest(cents % 100, FractionLength) # 0)

FloatNeg(x) == IF x.m = <<>> THEN x ELSE [x EXCEPT !.neg = ~x.neg]

\* x + y
FloatAdd(x, y) ==
  LET e == IF x.e <= y.e THEN x.e ELSE y.e
      xs == x.m \o Zeros(x.e - e)
      ys == y.m \o Zeros(y.e - e)
  IN
  IF x.m = <<>> THEN y
  ELSE IF y.m = <<>> THEN x
  ELSE IF x.neg = y.neg THEN RoundToNearestEven(x.neg, BitsSum(xs, ys), e, FALSE)
  ELSE IF BitsLess(xs, ys) THEN RoundToNearestEven(y.neg, BitsDifference(ys, xs), e, FALSE)
  ELSE RoundToNearestEven(x.neg, BitsDifference(xs, ys), e, FALSE)

\* x - y
FloatSub(x, y) == FloatAdd(x, FloatNeg(y))

\* x < y
FloatLess(x, y) ==
  LET d == FloatSub(x, y) IN d.m # <<>> /\ d.neg

\* Math.max(0, x)
FloatMaxZero(x) == IF x.neg THEN FloatZero ELSE x

\* derivePaymentStatus on binary64 arguments
derivePaymentStatusFloat(paidAmount, totalAmount) ==
  IF ~FloatLess(FloatZero, totalAmount)
  THEN IF FloatLess(FloatZero, paidAmount) THEN PAYMENT_STATUS.partiallyPaid
       ELSE PAYMENT_STATUS.unpaid
  ELSE IF ~FloatLess(paidAmount, totalAmount) THEN PAYMENT_STATUS.paid
  ELSE IF FloatLess(FloatZero, paidAmount) THEN PAYMENT_STATUS.partiallyPaid
  ELSE PAYMENT_STATUS.unpaid

\* The request validation and transaction body of updatePaymentStatus on a record whose
\* amounts are binary64 values; amount is in cents, NoAmount when none is sent.
UpdatePaymentStatusFloatTx(invoiceData, uid, action, amount) ==
  LET totalAmount == invoiceData.totalAmount
      currentPaidAmount == invoiceData.paidAmount
      currentUnpaidAmount == FloatSub(totalAmount, currentPaidAmount)
      paymentAmount == IF action = "pay"
                       THEN IF amount # NoAmount THEN FromCents(amount)
                            ELSE currentUnpaidAmount
                       ELSE FromCents(amount)
      newPaidAmount == FloatAdd(currentPaidAmount, paymentAmount)
      paymentEntry == [amount |-> paymentAmount, recordedBy |-> uid]
  IN
  IF ~PaymentRequestValid(action, amount)
  THEN [outcome |-> "invalid_request", doc |-> invoiceData]
  ELSE IF ~invoiceData.exists
  THEN [outcome |-> "not_found", doc |-> invoiceData]
  ELSE IF NotRecordOwner(invoiceData, uid)
  THEN [outcome |-> "forbidden", doc |-> invoiceData]
  ELSE IF /\ FloatLess(FloatZero, totalAmount)
          /\ FloatLess(FloatAdd(currentUnpaidAmount, FromCents(1)), paymentAmount)
  THEN [outcome |-> "exceeds_balance", doc |-> invoiceData]
  ELSE IF invoiceData.paymentStatus = PAYMENT_STATUS.paid
  THEN [outcome |-> "already_paid", doc |-> invoiceData]
  ELSE [outcome |-> "ok",
        doc |-> [invoiceData EXCEPT
                   !.paymentStatus = derivePaymentStatusFloat(newPaidAmount, totalAmount),
                   !.paidAmount = newPaidAmount,
                   !.unpaidAmount = FloatMaxZero(FloatSub(totalAmount, newPaidAmount)),
                   !.paymentHistory = AppendPaymentEntry(@, paymentEntry)]]

FloatRecordKey == <<<<"0", "9", "4">>, "s1">>

UpdatePaymentStatusFloat(uid, action, amount) ==
  LET r == UpdatePaymentStatusFloatTx(records[FloatRecordKey], uid, action, amount) IN
  /\ r.outcome = "ok" => Len(records[FloatRecordKey].paymentHistory) < MaxPayments
  /\ records' = [records EXCEPT ![FloatRecordKey] = r.doc]
  /\ lastCall' = [op |-> "updatePaymentStatus", supplierId |-> FloatRecordKey[1],
                  invoiceId |-> FloatRecordKey[2], uid |-> uid, action |-> action,
                  amount |-> amount, outcome |-> r.outcome]
  /\ UNCHANGED <<config, sessionVars, deliveries, inv, suppliers, artifacts,
                 terminalWrites>>

\* ------------------------------------------------------------ specification
Stores ==
  /\ sessions = [s \in SessionIds |-> NoSession]
  /\ readyEvents = [s \in SessionIds |-> 0]
  /\ deliveries = [s \in SessionIds |-> 0]
  /\ inv = [s \in SessionIds |-> [k \in Deliveries |-> NoInvocation]]
  /\ suppliers = [id \in SupplierIds |-> NoSupplier]
  /\ records = [key \in SupplierIds \X SessionIds |-> NoRecord]
  /\ artifacts = {}
  /\ terminalWrites = [s \in SessionIds |-> 0]
  /\ lastCall = NoCall

\* Either build, with or without OPENAI_API_KEY.
Init ==
  /\ build \in {"part_004", "index_js"}
  /\ openaiClient \in BOOLEAN
  /\ observe = FALSE
  /\ Stores

\* One upload session, with every request the deployed functions can receive for it.
Solo == {"s1"}

Next ==
  \/ \E s \in Solo, u \in Users, t \in TotalPagesArgs : EnsureInvoiceDocument(s, u, t)
  \/ \E s \in Solo, p \in PageNumbers, f \in Files : RegisterUploadedPage(s, p, f, 0, NoUid)
  \/ \E s \in Solo, k \in Deliveries : ProcessInvoiceDocument(s, k)

Spec == Init /\ [][Next]_vars

\* Scheduling: the change event of a session becoming ready is delivered at least once
\* (further deliveries may or may not happen), and a started invocation runs on: every
\* call it makes returns or throws.
Fairness ==
  \A s \in Solo :
    /\ WF_vars(StartInvocation(s, 1))
    /\ \A k \in Deliveries : WF_vars(ContinueInvocation(s, k))

FairSpec == Spec /\ Fairness

\* The session manager alone, over the whole parameter space of its two functions,
\* with the answer of every request observed.
SessionInit ==
  /\ build = "part_004"
  /\ openaiClient = TRUE
  /\ observe = TRUE
  /\ Stores

SessionNext ==
  \/ \E s \in Solo, u \in Users, t \in TotalPagesArgs : EnsureInvoiceDocument(s, u, t)
  \/ \E s \in Solo, p \in PageNumbers, f \in Files, t \in TotalPagesArgs,
        u \in Users \cup {NoUid} : RegisterUploadedPage(s, p, f, t, u)

SessionSpec == SessionInit /\ [][SessionNext]_vars

\* The payment ledger on the records that processing creates: one single-page upload by
\* user u1 is processed once without failures, and either user sends payment requests,
\* each answer observed.  updatePaymentStatus is the same in both builds.
LedgerNext ==
  \/ EnsureInvoiceDocument("s1", "u1", 1)
  \/ RegisterUploadedPage("s1", 1, "a", 0, NoUid)
  \/ LockAcquired("s1", 1)
  \/ \E o \in OcrResults : ExtractOk("s1", 1, o)
  \/ EnsureSupplierProfile("s1", 1)
  \/ DuplicateCheck("s1", 1)
  \/ SaveCombinedPdf("s1", 1, TRUE)
  \/ SetInvoiceRecord("s1", 1)
  \/ MarkDone("s1", 1)
  \/ \E id \in SupplierIds, u \in Users, a \in PaymentActions, m \in PaymentAmounts :
        UpdatePaymentStatus(id, "s1", u, a, m)

LedgerSpec == SessionInit /\ [][LedgerNext]_vars

\* Two single-page upload sessions of one user, processed concurrently.
DuoNext ==
  \/ \E s \in SessionIds : EnsureInvoiceDocument(s, "u1", 1)
  \/ \E s \in SessionIds : RegisterUploadedPage(s, 1, "a", 0, NoUid)
  \/ \E s \in SessionIds, k \in Deliveries : ProcessInvoiceDocument(s, k)

DuoSpec == Init /\ [][DuoNext]_vars

\* Recognition results for the ledger, all of one supplier: an invoice of 100.00, an
\* invoice whose total was not read, and a credit note, whose total is negative.
EditOcrResults ==
  { [supplierName |-> <<"A","c","m","e">>, supplierTaxNumber |-> <<"0","9","4">>,
     supplierCategory |-> <<>>, invoiceNumber |-> <<"A","-","1","7">>,
     totalAmount |-> t] :
       t \in {<<"1","0","0",".","0","0">>, <<"n","/","a">>, <<"-","5",".","0","0">>} }

EditSupplierIds == {SupplierIdOf(o) : o \in EditOcrResults}

\* Amounts in payment requests sent along with field edits: none, a part, and a part
\* that exceeds a balance of 60.00 by 0.02.
EditPaymentAmounts == {NoAmount, 40 * Scale, 60 * Scale + 2 * EPSILON}

\* Payments and field edits on the records that processing creates: one single-page
\* upload by user u1 is processed once without failures, either user sends payment
\* requests and the other user, u2, sends field patches, each answer observed.
EditNext ==
  \/ EnsureInvoiceDocument("s1", "u1", 1)
  \/ RegisterUploadedPage("s1", 1, "a", 0, NoUid)
  \/ LockAcquired("s1", 1)
  \/ \E o \in EditOcrResults : ExtractOk("s1", 1, o)
  \/ EnsureSupplierProfile("s1", 1)
  \/ DuplicateCheck("s1", 1)
  \/ SaveCombinedPdf("s1", 1, TRUE)
  \/ SetInvoiceRecord("s1", 1)
  \/ MarkDone("s1", 1)
  \/ \E id \in EditSupplierIds, u \in Users, a \in PaymentActions,
        m \in EditPaymentAmounts : UpdatePaymentStatus(id, "s1", u, a, m)
  \/ \E id \in EditSupplierIds, f \in FieldPatches :
        UpdateInvoiceFields(id, "s1", "u2", f)

EditSpec == SessionInit /\ [][EditNext]_vars

\* The payment ledger in the arithmetic of the runtime.  The record is as processing
\* writes it for an invoice of user u1 whose total was read as cents / 100 (totalAmount and
\* unpaidAmount the parsed number, no paidAmount, which every reader takes as 0); either
\* user sends payment requests with amounts in cents.  The session store plays no part.
FloatTotalCents == {10, 11, 21, 22, 23, 10000}

FloatPaymentCents == {NoAmount, 4, 5, 4000}

FloatInit ==
  /\ build = "part_004"
  /\ openaiClient = TRUE
  /\ observe = TRUE
  /\ sessions = [s \in SessionIds |-> NoSession]
  /\ readyEvents = [s \in SessionIds |-> 0]
  /\ deliveries = [s \in SessionIds |-> 0]
  /\ inv = [s \in SessionIds |-> [k \in Deliveries |-> NoInvocation]]
  /\ suppliers = [id \in SupplierIds |-> NoSupplier]
  /\ artifacts = {}
  /\ terminalWrites = [s \in SessionIds |-> 0]
  /\ lastCall = NoCall
  /\ \E cents \in FloatTotalCents :
       records = [key \in SupplierIds \X SessionIds |->
                    IF key = FloatRecordKey
                    THEN [NoRecord EXCEPT !.exists = TRUE,
                                          !.invoiceId = "s1",
                                          !.uploadedBy = "u1",
                                          !.totalAmount = FromCents(cents),
                                          !.paymentStatus = PAYMENT_STATUS.unpaid,
                                          !.paidAmount = FloatZero,
                                          !.unpaidAmount = FromCents(cents)]
                    ELSE NoRecord]

FloatNext ==
  \E u \in Users, a \in PaymentActions, m \in FloatPaymentCents :
    UpdatePaymentStatusFloat(u, a, m)

FloatSpec == FloatInit /\ [][FloatNext]_vars

\* derivePaymentStatus alone, applied to paid amounts from zero upwards and to totals
\* that are unknown, negative, zero and positive, around the points where the answer
\* changes (one unit of the fixed-point scale is 0.00001).
DerivePaidArgs ==
  {0, 1, EPSILON, 40 * Scale, 100 * Scale - 1, 100 * Scale, 100 * Scale + 1,
   100 * Scale + EPSILON, 250 * Scale, 20000 * Scale}

DeriveTotalArgs ==
  {NullNum, 0 - 100 * Scale, 0 - 1, 0, 1, EPSILON, 40 * Scale, 100 * Scale - 1,
   100 * Scale, 100 * Scale + 1, 250 * Scale}

DerivePaymentStatus(paidAmount, totalAmount) ==
  /\ lastCall' = [op |-> "derivePaymentStatus", paidAmount |-> paidAmount,
                  totalAmount |-> totalAmount,
                  status |-> derivePaymentStatus(paidAmount, totalAmount)]
  /\ UNCHANGED <<config, system>>

DeriveNext ==
  \E p \in DerivePaidArgs, t \in DeriveTotalArgs : DerivePaymentStatus(p, t)

DeriveSpec == SessionInit /\ [][DeriveNext]_vars

\* getSignedUploadUrl, called by the authenticated user uid: the page number is
\* normalized, ensureInvoiceDocument runs its transaction, and the answer carries the
\* signed URL for the object name of the page.  A failure is answered 400.
SignedUploadUrlCall(invoiceId, uid, pageNumber, file, totalPages) ==
  LET r == EnsureInvoiceDocumentTx(sessions[invoiceId], uid, totalPages) IN
  [op |-> "getSignedUploadUrl", invoiceId |-> invoiceId, uid |-> uid,
   pageNumber |-> pageNumber, totalPages |-> totalPages,
   outcome |-> IF pageNumber <= 0 THEN "invalid_pageNumber"
               ELSE IF r.outcome # "ok" THEN r.outcome
               ELSE IF r.doc.totalPages = 0 THEN "totalPages_unknown"
               ELSE "ok",
   objectName |-> ObjectName(invoiceId, pageNumber, file)]

GetSignedUploadUrl(invoiceId, uid, pageNumber, file, totalPages) ==
  LET r == EnsureInvoiceDocumentTx(sessions[invoiceId], uid, totalPages) IN
  /\ sessions' = [sessions EXCEPT ![invoiceId] = IF pageNumber <= 0 THEN @ ELSE r.doc]
  /\ lastCall' = SignedUploadUrlCall(invoiceId, uid, pageNumber, file, totalPages)
  /\ UNCHANGED <<config, readyEvents, pipelineVars>>

\* The user who was answered with a signed URL writes the page to it; the finalize event
\* of the object runs processUploadedInvoice, which registers the page.  The answer
\* keeps the user who had asked for the URL.
UploadToSignedUrl ==
  /\ lastCall.op = "getSignedUploadUrl"
  /\ lastCall.outcome = "ok"
  /\ LET r == RegisterUploadedPageTx(sessions[lastCall.invoiceId], lastCall.pageNumber,
                                     lastCall.objectName, 0, NoUid) IN
     /\ sessions' = [sessions EXCEPT ![lastCall.invoiceId] = r.doc]
     /\ readyEvents' = [readyEvents EXCEPT ![lastCall.invoiceId] =
                          @ + (IF r.markedReady THEN 1 ELSE 0)]
     /\ lastCall' = [op |-> "processUploadedInvoice", invoiceId |-> lastCall.invoiceId,
                     uid |-> lastCall.uid, pageNumber |-> lastCall.pageNumber,
                     totalPages |-> 0, outcome |-> r.outcome,
                     objectName |-> lastCall.objectName]
  /\ UNCHANGED <<config, pipelineVars>>

\* Uploads of either user into one session, each through a signed URL.
UploadNext ==
  \/ \E s \in Solo, u \in Users, p \in PageNumbers, f \in Files, t \in TotalPagesArgs :
        GetSignedUploadUrl(s, u, p, f, t)
  \/ UploadToSignedUrl

UploadSpec == SessionInit /\ [][UploadNext]_vars

\* runInvoiceOcr: the retry loop around runInvoiceOcrAttempt.  What the attempts would
\* produce is given as a sequence: an attempt returns a parsed result, returns nothing
\* (the response parsed to a falsy value) or throws an error.
OCR_MAX_RETRIES == 3

NoResultError == "OCR attempt produced no result."

AttemptOutcomes ==
  { [kind |-> "result", value |-> "r1", error |-> ""],
    [kind |-> "result", value |-> "r2", error |-> ""],
    [kind |-> "empty", value |-> "", error |-> ""],
    [kind |-> "throw", value |-> "", error |-> "vision_failed"],
    [kind |-> "throw", value |-> "", error |-> "no_json_found"] }

\* lastError after an attempt that did not produce a result
LastErrorAfter_First(lastError, outcome) ==
  IF lastError # "" THEN lastError
  ELSE IF outcome.kind = "throw" THEN outcome.error ELSE NoResultError
LastErrorAfter(lastError, outcome) ==
  IF outcome.kind = "throw" THEN outcome.error ELSE NoResultError

\* The loop from attempt number attempt on, lastError being the error kept so far.
RECURSIVE RunInvoiceOcrFrom(_, _, _)
RunInvoiceOcrFrom(attempt, lastError, outcomes) ==
  IF attempt > OCR_MAX_RETRIES
  THEN [kind |-> "thrown", value |-> "", error |-> lastError, attempts |-> attempt - 1]
  ELSE IF outcomes[attempt].kind = "result"
  THEN [kind |-> "returned", value |-> outcomes[attempt].value, error |-> "",
        attempts |-> attempt]
  ELSE RunInvoiceOcrFrom(attempt + 1, LastErrorAfter(lastError, outcomes[attempt]), outcomes)

RunInvoiceOcr(outcomes) ==
  /\ lastCall' = [op |-> "runInvoiceOcr", outcomes |-> outcomes,
                  answer |-> RunInvoiceOcrFrom(1, "", outcomes)]
  /\ UNCHANGED <<config, system>>

\* runInvoiceOcr alone, with the key configured and pages to read, over every sequence
\* of outcomes of one attempt more than the loop allows.
OcrNext ==
  \E outcomes \in [1..(OCR_MAX_RETRIES + 1) -> AttemptOutcomes] : RunInvoiceOcr(outcomes)

OcrSpec == SessionInit /\ [][OcrNext]_vars

\* runInvoiceOcr step by step: every attempt runs the text detection on each page buffer
\* in turn and then the extraction of the fields, each an awaited call to a service.  The
\* run is kept in lastCall: the attempt, the page reached, the texts aggregated in this
\* attempt and a log of the service calls made.
OcrPageBuffers ==
  { <<[pageNumber |-> 1, mimeType |-> m]>> : m \in {"image/jpeg", "application/pdf"} }
  \cup { <<[pageNumber |-> 1, mimeType |-> m], [pageNumber |-> 3, mimeType |-> n]>> :
           m, n \in {"image/jpeg", "application/pdf"} }

DetectionOutcomes == {"text", "empty", "throw"}

ExtractionOutcomes == { o \in AttemptOutcomes : o.error # "vision_failed" }

NoTextError == "Vision API did not return any text for this invoice."

OcrRunning == lastCall.op = "runInvoiceOcrAttempt" /\ lastCall.state = "running"

StartInvoiceOcr(pageBuffers) ==
  /\ lastCall.op = "none"
  /\ openaiClient
  /\ Len(pageBuffers) # 0
  /\ lastCall' = [op |-> "runInvoiceOcrAttempt", state |-> "running",
                  pageBuffers |-> pageBuffers, attempt |-> 1, page |-> 1,
                  aggregatedText |-> <<>>, lastError |-> "", calls |-> <<>>,
                  result |-> ""]
  /\ UNCHANGED <<config, system>>

\* An attempt that did not produce a result: the loop of runInvoiceOcr keeps the error and
\* starts the next attempt from the first page buffer, or throws after the last attempt.
AttemptFailed(c, error, calls) ==
  IF c.attempt < OCR_MAX_RETRIES
  THEN [c EXCEPT !.attempt = c.attempt + 1, !.page = 1, !.aggregatedText = <<>>,
                 !.lastError = error, !.calls = calls]
  ELSE [c EXCEPT !.state = "thrown", !.lastError = error, !.calls = calls]

\* A PDF page buffer is skipped.
SkipPdfPage ==
  /\ OcrRunning
  /\ lastCall.page <= Len(lastCall.pageBuffers)
  /\ lastCall.pageBuffers[lastCall.page].mimeType = "application/pdf"
  /\ lastCall' = [lastCall EXCEPT !.page = lastCall.page + 1]
  /\ UNCHANGED <<config, system>>

\* The run after documentTextDetection on the page buffer reached answered with text,
\* with no text, or threw.
AfterDetectText_Swallow(c, outcome, calls) ==
  IF outcome = "text"
  THEN [c EXCEPT !.page = c.page + 1, !.calls = calls,
                 !.aggregatedText = Append(c.aggregatedText, c.pageBuffers[c.page].pageNumber)]
  ELSE [c EXCEPT !.page = c.page + 1, !.calls = calls]
AfterDetectText(c, outcome, calls) ==
  IF outcome = "throw" THEN AttemptFailed(c, "vision_failed", calls)
  ELSE IF outcome = "text"
  THEN [c EXCEPT !.page = c.page + 1, !.calls = calls,
                 !.aggregatedText = Append(c.aggregatedText, c.pageBuffers[c.page].pageNumber)]
  ELSE [c EXCEPT !.page = c.page + 1, !.calls = calls]

DetectText(outcome) ==
  /\ OcrRunning
  /\ lastCall.page <= Len(lastCall.pageBuffers)
  /\ lastCall.pageBuffers[lastCall.page].mimeType # "application/pdf"
  /\ lastCall' = AfterDetectText(lastCall, outcome,
                   Append(lastCall.calls,
                          [attempt |-> lastCall.attempt, service |-> "vision",
                           pageNumber |-> lastCall.pageBuffers[lastCall.page].pageNumber,
                           outcome |-> outcome]))
  /\ UNCHANGED <<config, system>>

\* No page gave text: the attempt throws before the extraction.
NoTextAtAll ==
  /\ OcrRunning
  /\ lastCall.page > Len(lastCall.pageBuffers)
  /\ lastCall.aggregatedText = <<>>
  /\ lastCall' = AttemptFailed(lastCall, NoTextError, lastCall.calls)
  /\ UNCHANGED <<config, system>>

\* The extraction of the fields from the aggregated text, and what the attempt makes of
\* its answer.
ExtractFields(outcome) ==
  /\ OcrRunning
  /\ lastCall.page > Len(lastCall.pageBuffers)
  /\ lastCall.aggregatedText # <<>>
  /\ LET calls == Append(lastCall.calls,
                         [attempt |-> lastCall.attempt, service |-> "openai",
                          pageNumber |-> 0, outcome |-> outcome.kind]) IN
     lastCall' = IF outcome.kind = "result"
                 THEN [lastCall EXCEPT !.state = "returned", !.result = outcome.value,
                                       !.calls = calls]
                 ELSE AttemptFailed(lastCall, LastErrorAfter(lastCall.lastError, outcome),
                                    calls)
  /\ UNCHANGED <<config, system>>

AttemptNext ==
  \/ \E pageBuffers \in OcrPageBuffers : StartInvoiceOcr(pageBuffers)
  \/ SkipPdfPage
  \/ \E outcome \in DetectionOutcomes : DetectText(outcome)
  \/ NoTextAtAll
  \/ \E outcome \in ExtractionOutcomes : ExtractFields(outcome)

AttemptSpec == SessionInit /\ [][AttemptNext]_vars

\* ensureSupplierProfile alone: upserts for the supplier ids of the recognition results,
\* with names, tax numbers and categories that are missing or differ between calls.
ProfileNames == {<<>>, <<"A","c","m","e">>, <<"A","C","M","E"," ","S","A">>}

ProfileTaxNumbers == {<<>>, <<"0","9","4">>, <<"0","9","5">>}

ProfileCategories == {<<>>, <<"f","o","o","d">>, <<"f","u","e","l">>}

EnsureSupplierProfileFor(supplierId, supplierName, supplierTaxNumber, supplierCategory) ==
  /\ suppliers' = [suppliers EXCEPT ![supplierId] =
                     EnsureSupplierProfileTx(@, supplierName, supplierTaxNumber,
                                             supplierCategory)]
  /\ lastCall' = [op |-> "ensureSupplierProfile", supplierId |-> supplierId,
                  supplierName |-> supplierName, supplierTaxNumber |-> supplierTaxNumber,
                  supplierCategory |-> supplierCategory]
  /\ UNCHANGED <<config, sessionVars, deliveries, inv, records, artifacts, terminalWrites>>

ProfileNext ==
  \E id \in SupplierIds, n \in ProfileNames, t \in ProfileTaxNumbers,
     c \in ProfileCategories : EnsureSupplierProfileFor(id, n, t, c)

ProfileSpec == SessionInit /\ [][ProfileNext]_vars

\* normalizeEuropeanDecimals on a text that is one amount: digits in groups of three
\* separated by dots, a comma and one or two decimals become digits, a dot, the decimals.
AllDigits(str) == \A i \in 1..Len(str) : str[i] \in Digits

GroupedInteger(str) ==
  \E g \in 1..3 :
    /\ Len(str) >= g
    /\ (Len(str) - g) % 4 = 0
    /\ \A i \in 1..Len(str) :
         IF i > g /\ (i - g) % 4 = 1 THEN str[i] = "." ELSE str[i] \in Digits

CommaIndex(str) ==
  IF \E i \in 1..Len(str) : str[i] = ","
  THEN CHOOSE i \in 1..Len(str) : str[i] = "," /\ \A j \in 1..(i - 1) : str[j] # ","
  ELSE 0

GroupedEuropean(str) ==
  LET c == CommaIndex(str) IN
  /\ c > 1
  /\ Len(str) - c \in 1..2
  /\ AllDigits(SubSeq(str, c + 1, Len(str)))
  /\ GroupedInteger(SubSeq(str, 1, c - 1))

normalizeEuropeanDecimals(text) ==
  LET c == CommaIndex(text) IN
  IF GroupedEuropean(text)
  THEN KeepChars(SubSeq(text, 1, c - 1), Digits) \o <<".">> \o SubSeq(text, c + 1, Len(text))
  ELSE text

\* parseAmount alone, applied to what the extraction may return for an amount: amounts
\* in dot-decimal and in grouped European notation, texts without a number, and every
\* text of up to three characters over a digit, the separators, the sign and a letter.
AmountAlphabet == {"1", ".", ",", "-", "x"}

AmountTexts ==
  { <<"1",".","2","3","4",",","5","6">>, <<"2",".","3","8","3",",","1","3">>,
    <<"8","3",",","1","3">>, <<"1","2","3","4",".","5","6">>,
    <<"1","0","0",".","0","0">>, <<"n","/","a">>, <<"1","2",".","3","4",".","5","6">>,
    <<"-","5",".","0","0">>, <<>> }
  \cup UNION { [1..n -> AmountAlphabet] : n \in 1..3 }

ParseAmount(value) ==
  /\ lastCall' = [op |-> "parseAmount", value |-> value, result |-> parseAmount(value)]
  /\ UNCHANGED <<config, system>>

AmountNext == \E value \in AmountTexts : ParseAmount(value)

AmountSpec == SessionInit /\ [][AmountNext]_vars

\* Assembly of the combined PDF and choice of the pages to read.  What an uploaded object
\* holds is fixed by its file: file "a" is a scanned image, file "b" a PDF document of
\* PdfPageCount pages.
PdfPageCount == 2

ContentTypeOf(objectName) ==
  IF objectName[3] = "b" THEN "application/pdf" ELSE "image/jpeg"

\* The pages copied into the combined PDF for one entry: every page of a PDF, in its
\* order, or the one page made from an image.
CopiedPages_FirstOnly(entry) == <<[objectName |-> entry.objectName, index |-> 1]>>
CopiedPages(entry) ==
  IF ContentTypeOf(entry.objectName) = "application/pdf"
  THEN [n \in 1..PdfPageCount |-> [objectName |-> entry.objectName, index |-> n]]
  ELSE <<[objectName |-> entry.objectName, index |-> 1]>>

RECURSIVE CombinedPdf(_)
CombinedPdf(pageEntries) ==
  IF pageEntries = <<>> THEN <<>>
  ELSE CopiedPages(Head(pageEntries)) \o CombinedPdf(Tail(pageEntries))

\* buildCombinedPdfFromPages for entries that all can be downloaded
buildCombinedPdfFromPages(pageEntries) ==
  [combinedPdf |-> CombinedPdf(pageEntries),
   downloadedPages |-> [n \in 1..Len(pageEntries) |->
                          [pageNumber |-> pageEntries[n].pageNumber,
                           objectName |-> pageEntries[n].objectName,
                           mimeType |-> ContentTypeOf(pageEntries[n].objectName)]]]

\* pagesToOcr: the first and the last page when there are more than two
PagesToOcr_FirstTwo(downloadedPages) ==
  IF Len(downloadedPages) > 2 THEN SubSeq(downloadedPages, 1, 2) ELSE downloadedPages
PagesToOcr(downloadedPages) ==
  IF Len(downloadedPages) > 2
  THEN LET sortedPages == SortByPageNumber(downloadedPages) IN
       <<sortedPages[1], sortedPages[Len(sortedPages)]>>
  ELSE downloadedPages

\* The steps of processInvoiceDocument from the page checks to the call of runInvoiceOcr,
\* on the pages of a session that is ready; what they compute is recorded.
AssemblePages(s) ==
  LET pages == SortByPageNumber(sessions[s].pages)
      built == buildCombinedPdfFromPages(pages) IN
  /\ sessions[s].status = INVOICE_STATUS.ready
  /\ Len(pages) # 0
  /\ sessions[s].totalPages # 0 => Len(pages) = sessions[s].totalPages
  /\ lastCall' = [op |-> "buildCombinedPdfFromPages", invoiceId |-> s,
                  combinedPdf |-> built.combinedPdf,
                  pagesToOcr |-> PagesToOcr(built.downloadedPages)]
  /\ UNCHANGED <<config, system>>

\* One session of up to MaxAssemblePages pages: its pages are registered in any order,
\* each as an image or as a PDF, possibly more than once, and assembled when it is ready.
MaxAssemblePages == 3

AssembleNext ==
  \/ \E t \in 1..MaxAssemblePages : EnsureInvoiceDocument("s1", "u1", t)
  \/ \E p \in 1..MaxAssemblePages, f \in Files : RegisterUploadedPage("s1", p, f, 0, NoUid)
  \/ AssemblePages("s1")

AssembleSpec == SessionInit /\ [][AssembleNext]_vars

\* Retry after an error.  The documented recovery of a session in status error: its
\* status is reset to pending from outside the functions; no other field is written.
ResetStatus(s) ==
  /\ sessions[s].status = INVOICE_STATUS.error
  /\ sessions' = [sessions EXCEPT ![s].status = INVOICE_STATUS.pending]
  /\ lastCall' = NoCall
  /\ UNCHANGED <<config, readyEvents, pipelineVars>>

\* Amounts of the payment requests sent between processing attempts: none and a part.
RetryPaymentAmounts == {NoAmount, 40 * Scale}

RetryInit ==
  /\ build \in {"part_004", "index_js"}
  /\ openaiClient \in BOOLEAN
  /\ observe = TRUE
  /\ Stores

\* One single-page upload session of user u1 with every outcome of processing, the
\* reset of a failed session, the repeated registration of its page and payments by
\* its owner, each answer observed.
RetryNext ==
  \/ EnsureInvoiceDocument("s1", "u1", 1)
  \/ RegisterUploadedPage("s1", 1, "a", 0, NoUid)
  \/ \E k \in Deliveries : ProcessInvoiceDocument("s1", k)
  \/ ResetStatus("s1")
  \/ \E id \in SupplierIds, a \in PaymentActions, m \in RetryPaymentAmounts :
        UpdatePaymentStatus(id, "s1", "u1", a, m)

RetrySpec == RetryInit /\ [][RetryNext]_vars

\* Scheduling for the retry: the platform keeps delivering change events and running
\* the invocations it started, as long as there is one to deliver or to run.  Requests
\* of clients and the reset are under no obligation.
RetryFairness == WF_vars(\E k \in Deliveries : ProcessInvoiceDocument("s1", k))

RetryFairSpec == RetrySpec /\ RetryFairness

\* ------------------------------------------------------------------ claims
PageNumbersOf(pages) == {pages[n].pageNumber : n \in 1..Len(pages)}

AllPagesUploaded(d) == d.exists /\ d.totalPages # 0 /\ d.uploadedPages = 1..d.totalPages

\* C2: whatever the interleaving of registerUploadedPage calls (and of processing), a
\* session turns from pending to ready at most once, it has done so exactly once when all
\* its pages 1..totalPages are registered and not before, and its pages list never holds
\* two entries with the same pageNumber; so registering an uploaded page again neither
\* marks the session ready a second time nor duplicates the page.
C2_ReadyExactlyOnce ==
  \A s \in SessionIds :
    LET d == sessions[s] IN
    /\ readyEvents[s] <= 1
    /\ AllPagesUploaded(d) <=> readyEvents[s] = 1
    /\ Cardinality(PageNumbersOf(d.pages)) = Len(d.pages)
    /\ PageNumbersOf(d.pages) = d.uploadedPages

\* A two-page session became ready, was locked, and a page was then registered again
\* with another file: the session's pages differ from the locked snapshot.
C2_Witness ==
  \E s \in SessionIds, k \in Deliveries :
    /\ readyEvents[s] = 1
    /\ sessions[s].totalPages = 2
    /\ inv[s][k].pc = "locked"
    /\ Len(sessions[s].pages) = 2
    /\ sessions[s].pages # inv[s][k].pages

\* C9: a registerUploadedPage call fails as not-found when the session does not exist, as
\* forbidden when caller and owner are both known and differ, and as a validation error
\* when the page number exceeds the session's page count or no page count is known; a
\* failed call leaves the session document as it was.
C9_ValidationOutcomes == {"totalPages_unknown", "totalPages_mismatch", "page_exceeds_total"}

C9_RegisterPageFailures ==
  [][lastCall'.op = "registerUploadedPage" /\ lastCall'.pageNumber > 0 =>
       LET c == lastCall'
           d == sessions[c.invoiceId]
           differs == d.ownerUid # NoUid /\ c.uid # NoUid /\ d.ownerUid # c.uid
           known == IF d.totalPages # 0 THEN d.totalPages ELSE c.totalPages IN
       /\ ~d.exists => c.outcome = "not_found"
       /\ d.exists /\ differs => c.outcome = "forbidden"
       /\ d.exists /\ ~differs /\ (known = 0 \/ c.pageNumber > known)
            => c.outcome \in C9_ValidationOutcomes
       /\ c.outcome # "ok" => sessions' = sessions /\ readyEvents' = readyEvents
       /\ c.outcome = "ok" => sessions'[c.invoiceId] # d \/ c.pageNumber \in d.uploadedPages]_vars

\* A caller who is not the owner was refused on a session that already holds a page.
C9_Witness ==
  /\ lastCall.op = "registerUploadedPage"
  /\ lastCall.outcome = "forbidden"
  /\ sessions[lastCall.invoiceId].uploadedPages # {}
  /\ sessions[lastCall.invoiceId].status = INVOICE_STATUS.pending

\* C10: ensureInvoiceDocument on a missing session fails when no totalPages is given and
\* otherwise creates the session pending with no pages; on an existing session it fails
\* when the given totalPages differs from the recorded one, and when it succeeds it leaves
\* status, uploadedPages, pages, ownerUid and the recorded totalPages as they were.
C10_CreateOrGetSession ==
  [][lastCall'.op = "ensureInvoiceDocument" =>
       LET c == lastCall'
           d == sessions[c.invoiceId]
           e == sessions'[c.invoiceId] IN
       /\ ~d.exists /\ c.totalPages = 0 => c.outcome # "ok" /\ e = d
       /\ ~d.exists /\ c.totalPages # 0 =>
            /\ c.outcome = "ok"
            /\ e = [NoSession EXCEPT !.exists = TRUE, !.status = INVOICE_STATUS.pending,
                                     !.ownerUid = c.uid, !.totalPages = c.totalPages]
       /\ d.exists /\ c.totalPages # 0 /\ d.totalPages # 0 /\ c.totalPages # d.totalPages =>
            c.outcome = "totalPages_mismatch" /\ e = d
       /\ d.exists /\ c.outcome = "ok" =>
            /\ e.status = d.status
            /\ e.uploadedPages = d.uploadedPages
            /\ e.pages = d.pages
            /\ e.ownerUid = d.ownerUid
            /\ e.totalPages = d.totalPages]_vars

\* A ready session with its pages was asked for again with a contradicting page count.
C10_Witness ==
  /\ lastCall.op = "ensureInvoiceDocument"
  /\ lastCall.outcome = "totalPages_mismatch"
  /\ sessions[lastCall.invoiceId].status = INVOICE_STATUS.ready
  /\ sessions[lastCall.invoiceId].uploadedPages # {}

RECURSIVE SumOfAmounts(_)
SumOfAmounts(history) ==
  IF history = <<>> THEN 0 ELSE Head(history).amount + SumOfAmounts(Tail(history))

RecordKeys == SupplierIds \X SessionIds

\* C4 as stated: in every reachable state of every record, the accepted payments add up
\* to paidAmount and paidAmount is at most totalAmount + 0.01 (an unknown total counts 0).
C4_NeverOverpaid ==
  \A key \in RecordKeys :
    records[key].exists =>
      /\ SumOfAmounts(records[key].paymentHistory) = OrZero(records[key].paidAmount)
      /\ OrZero(records[key].paidAmount) <= OrZero(records[key].totalAmount) + EPSILON

\* C4, amended: for every record whose totalAmount is known and positive, whatever the
\* sequence of updatePaymentStatus calls, the accepted payments add up to paidAmount and
\* paidAmount never exceeds totalAmount + 0.01: a payment that would exceed it is rejected.
C4_NeverOverpaidKnownTotal ==
  \A key \in RecordKeys :
    records[key].exists /\ OrZero(records[key].totalAmount) > 0 =>
      /\ SumOfAmounts(records[key].paymentHistory) = OrZero(records[key].paidAmount)
      /\ OrZero(records[key].paidAmount) <= records[key].totalAmount + EPSILON

\* After 40.00 was paid on a total of 100.00, a payment of 60.02 was refused.
C4_Witness ==
  /\ lastCall.op = "updatePaymentStatus"
  /\ lastCall.outcome = "exceeds_balance"
  /\ lastCall.amount = 60 * Scale + 2 * EPSILON
  /\ LET r == records[<<lastCall.supplierId, lastCall.invoiceId>>] IN
       r.totalAmount = 100 * Scale /\ r.paidAmount = 40 * Scale

AcquiredBy(s) == {k \in Deliveries : inv[s][k].lock = "acquired"}

RecordsOf(s) == {id \in SupplierIds : records[<<id, s>>].exists}

\* every delivery made so far has returned, and none lost its lock transaction to an error
Quiescent(s) ==
  \A k \in 1..deliveries[s] : inv[s][k].pc = "finished" /\ inv[s][k].lock # "failed"

\* C1: for a session that became ready, at most one invocation's lock transaction changes
\* ready to processing, at most one terminal status (done or error) is written and at most
\* one record is created; once the trigger was delivered two or more times and all these
\* invocations have returned, exactly one acquired the lock and exactly one terminal
\* status was written.
C1_ProcessedExactlyOnce ==
  \A s \in SessionIds :
    /\ Cardinality(AcquiredBy(s)) <= 1
    /\ terminalWrites[s] <= 1
    /\ Cardinality(RecordsOf(s)) <= 1
    /\ deliveries[s] >= 2 /\ Quiescent(s) =>
         Cardinality(AcquiredBy(s)) = 1 /\ terminalWrites[s] = 1

AllowedTransitions ==
  { <<"none", INVOICE_STATUS.pending>>,
    <<INVOICE_STATUS.pending, INVOICE_STATUS.ready>>,
    <<INVOICE_STATUS.ready, INVOICE_STATUS.processing>>,
    <<INVOICE_STATUS.processing, INVOICE_STATUS.done>>,
    <<INVOICE_STATUS.processing, INVOICE_STATUS.error>> }

\* C3: every change of a session's status made by the functions is the creation as
\* pending, pending -> ready, ready -> processing, processing -> done or
\* processing -> error; there is no ready -> error, done -> error or done -> anything.
C3_StatusTransitions ==
  [][\A s \in SessionIds :
       sessions'[s].status # sessions[s].status =>
         <<sessions[s].status, sessions'[s].status>> \in AllowedTransitions]_vars

\* C5: when the recognition result of a session carries the supplier and document number
\* of a record that already exists, no record and no combined PDF is written for the
\* session and the invocation ends with the session in status error naming that record.
C5_DuplicateRejected ==
  \A s \in SessionIds, k \in Deliveries :
    LET i == inv[s][k] IN
    i.duplicateAtExtraction # "" =>
      /\ RecordsOf(s) = {}
      /\ \A id \in SupplierIds : <<id, s>> \notin artifacts
      /\ i.pc = "finished" =>
           /\ sessions[s].status = INVOICE_STATUS.error
           /\ sessions[s].duplicateOf = i.duplicateAtExtraction

\* C6: a step of an invocation whose lock transaction did not change ready to processing
\* writes nothing: sessions, suppliers, records and stored PDFs stay as they are.
C6_NoWriteWithoutLock ==
  [][\A s \in SessionIds, k \in Deliveries :
       inv'[s][k] # inv[s][k] /\ inv'[s][k].lock # "acquired" =>
         /\ sessions' = sessions
         /\ suppliers' = suppliers
         /\ records' = records
         /\ artifacts' = artifacts]_vars

\* C7: once an invocation holds the lock and one of its steps has failed, the session is
\* never marked done, and when the invocation has returned the session is in status
\* error with a non-empty errorMessage.
C7_FailureEndsInError ==
  \A s \in SessionIds, k \in Deliveries :
    inv[s][k].stepFailed =>
      /\ sessions[s].status # INVOICE_STATUS.done
      /\ inv[s][k].pc = "finished" =>
           /\ sessions[s].status = INVOICE_STATUS.error
           /\ sessions[s].errorMessage # ""

\* C8: under the scheduling assumptions, a session that is ready eventually is done or
\* in error.
C8_ReadyLeadsToTerminal ==
  \A s \in Solo :
    (sessions[s].status = INVOICE_STATUS.ready)
      ~> (sessions[s].status \in {INVOICE_STATUS.done, INVOICE_STATUS.error})

\* C11: no lost updates.  A registerUploadedPage call that succeeds leaves its page number
\* in uploadedPages and an entry for it, with the object it named, in pages; and no later
\* ensureInvoiceDocument or registerUploadedPage call, in any interleaving, takes a page
\* number out of uploadedPages or out of pages.
C11_NoLostUpdates ==
  [][\A s \in SessionIds :
       /\ sessions[s].uploadedPages \subseteq sessions'[s].uploadedPages
       /\ PageNumbersOf(sessions[s].pages) \subseteq PageNumbersOf(sessions'[s].pages)
       /\ lastCall'.op = "registerUploadedPage" /\ lastCall'.invoiceId = s
            /\ lastCall'.outcome = "ok" =>
              /\ lastCall'.pageNumber \in sessions'[s].uploadedPages
              /\ \E n \in 1..Len(sessions'[s].pages) :
                   /\ sessions'[s].pages[n].pageNumber = lastCall'.pageNumber
                   /\ sessions'[s].pages[n].objectName[1] = s
                   /\ sessions'[s].pages[n].objectName[2] = lastCall'.pageNumber]_vars

\* Page 1 was registered after page 2 (or again), then the session was asked for again
\* by the other user: both pages are still there.
C11_Witness ==
  /\ lastCall.op = "ensureInvoiceDocument"
  /\ lastCall.outcome = "ok"
  /\ lastCall.uid # sessions[lastCall.invoiceId].ownerUid
  /\ sessions[lastCall.invoiceId].uploadedPages = {1, 2}
  /\ Len(sessions[lastCall.invoiceId].pages) = 2

\* C12: once totalPages of a session has a value, no ensureInvoiceDocument or
\* registerUploadedPage call, successful or failing, with any totalPages argument,
\* changes it.
C12_TotalPagesFixed ==
  [][\A s \in SessionIds :
       sessions[s].totalPages # 0 => sessions'[s].totalPages = sessions[s].totalPages]_vars

\* A page was offered with a page count that contradicts the recorded one.
C12_Witness ==
  /\ lastCall.op = "registerUploadedPage"
  /\ lastCall.totalPages # 0
  /\ sessions[lastCall.invoiceId].exists
  /\ lastCall.totalPages # sessions[lastCall.invoiceId].totalPages
  /\ lastCall.outcome = "totalPages_mismatch"

\* C13: in every state of a session, pages has as many entries as uploadedPages has
\* elements, the page numbers in pages are pairwise distinct and are exactly the
\* elements of uploadedPages, and pages is sorted by ascending pageNumber.
C13_PagesMatchUploaded ==
  \A s \in SessionIds :
    LET d == sessions[s] IN
    /\ Len(d.pages) = Cardinality(d.uploadedPages)
    /\ \A m, n \in 1..Len(d.pages) : m # n => d.pages[m].pageNumber # d.pages[n].pageNumber
    /\ {d.pages[n].pageNumber : n \in 1..Len(d.pages)} = d.uploadedPages
    /\ \A m, n \in 1..Len(d.pages) : m < n => d.pages[m].pageNumber < d.pages[n].pageNumber

\* The first page of a session with two pages was just registered: it was registered
\* after the second page, or for the second time.
C13_Witness ==
  /\ lastCall.op = "registerUploadedPage"
  /\ lastCall.outcome = "ok"
  /\ Len(sessions[lastCall.invoiceId].pages) >= 2
  /\ lastCall.pageNumber = sessions[lastCall.invoiceId].pages[1].pageNumber

\* C14: derivePaymentStatus(paid, total), for every paid >= 0 and every total: when the
\* total is unknown or not positive the answer is partiallyPaid if paid > 0 and unpaid
\* otherwise; when the total is positive the answer is paid if paid >= total,
\* partiallyPaid if 0 < paid < total, and unpaid if paid = 0.
C14_DerivePaymentStatus ==
  lastCall.op = "derivePaymentStatus" /\ lastCall.paidAmount >= 0 =>
    LET paid == lastCall.paidAmount
        total == lastCall.totalAmount
        totalUnknown == total = NullNum
    IN
    /\ (totalUnknown \/ total <= 0) /\ paid > 0 => lastCall.status = "partially_paid"
    /\ (totalUnknown \/ total <= 0) /\ paid = 0 => lastCall.status = "unpaid"
    /\ ~totalUnknown /\ total > 0 /\ paid >= total => lastCall.status = "paid"
    /\ ~totalUnknown /\ total > 0 /\ 0 < paid /\ paid < total =>
         lastCall.status = "partially_paid"
    /\ ~totalUnknown /\ total > 0 /\ paid = 0 => lastCall.status = "unpaid"

\* The boundary: the amount paid equals a positive total.
C14_Witness ==
  /\ lastCall.op = "derivePaymentStatus"
  /\ lastCall.totalAmount # NullNum
  /\ lastCall.totalAmount > 0
  /\ lastCall.paidAmount = lastCall.totalAmount
  /\ lastCall.status = "paid"

\* The record a payment request names, before the request is handled.
RecordOfCall(call) == records[<<call.supplierId, call.invoiceId>>]

\* C17: every well-formed updatePaymentStatus request by the owner on a record whose
\* paymentStatus is paid fails with 'Invoice is already fully paid', whatever the action
\* and the amount: that check is decided before the amount is compared with the balance.
C17_AlreadyPaidFirst ==
  [][lastCall'.op = "updatePaymentStatus"
       /\ PaymentRequestValid(lastCall'.action, lastCall'.amount)
       /\ RecordOfCall(lastCall').exists
       /\ RecordOfCall(lastCall').uploadedBy = lastCall'.uid
       /\ RecordOfCall(lastCall').paymentStatus = "paid"
       => lastCall'.outcome = "already_paid"]_vars

\* C18: a well-formed updatePaymentStatus request fails with not found when the record
\* is absent and with forbidden when the record has an owner who is not the caller; a
\* request changes a record only when the caller is its owner or it has no owner.
C18_OwnerOnly ==
  [][lastCall'.op = "updatePaymentStatus"
       /\ PaymentRequestValid(lastCall'.action, lastCall'.amount) =>
       LET r == RecordOfCall(lastCall') IN
       /\ ~r.exists => lastCall'.outcome = "not_found"
       /\ r.exists /\ r.uploadedBy # NoUid /\ r.uploadedBy # lastCall'.uid =>
            lastCall'.outcome = "forbidden"
       /\ \A key \in DOMAIN records :
            records'[key] # records[key] =>
              /\ key = <<lastCall'.supplierId, lastCall'.invoiceId>>
              /\ lastCall'.outcome = "ok"
              /\ r.uploadedBy \in {NoUid, lastCall'.uid}]_vars

\* The other user was refused on a record that its owner has paid a part of.
C18_Witness ==
  /\ lastCall.op = "updatePaymentStatus"
  /\ lastCall.outcome = "forbidden"
  /\ RecordOfCall(lastCall).exists
  /\ RecordOfCall(lastCall).uploadedBy # lastCall.uid
  /\ Len(RecordOfCall(lastCall).paymentHistory) = 1
  /\ RecordOfCall(lastCall).paymentHistory[1].recordedBy = RecordOfCall(lastCall).uploadedBy

\* C16: every updatePaymentStatus or updateInvoiceFields request that fails (record
\* absent, caller not the owner, record already paid, amount over the balance, invalid
\* request or patch, paid amount over the total) leaves every record exactly as it was.
C16_FailureWritesNothing ==
  [][lastCall'.op \in {"updatePaymentStatus", "updateInvoiceFields"}
       /\ lastCall'.outcome # "ok" => records' = records]_vars

\* A patch that would make the paid amount exceed the total was refused on a record
\* that has a payment.
C16_Witness ==
  /\ lastCall.op = "updateInvoiceFields"
  /\ lastCall.outcome = "paid_exceeds_total"
  /\ "invoiceNumber" \notin lastCall.fields.keys
  /\ RecordOfCall(lastCall).exists
  /\ Len(RecordOfCall(lastCall).paymentHistory) >= 1

\* C19: in every state of an existing record, after its creation and any payments and
\* field edits, unpaidAmount = max(0, totalAmount - paidAmount) and paymentStatus =
\* derivePaymentStatus(paidAmount, totalAmount), an amount that is not stored counting
\* as 0.
C19_AmountsConsistent ==
  \A key \in DOMAIN records :
    LET r == records[key] IN
    r.exists =>
      /\ OrZero(r.unpaidAmount) = Max(0, OrZero(r.totalAmount) - OrZero(r.paidAmount))
      /\ r.paymentStatus = derivePaymentStatus(OrZero(r.paidAmount), r.totalAmount)

\* The second half of C19: a successful updateInvoiceFields whose patch has totalAmount or
\* paidAmount stores the unpaidAmount and paymentStatus that follow from the patched
\* values, and such a patch never succeeds with paidAmount > totalAmount + 0.01.
C19_EditRecomputes ==
  [][lastCall'.op = "updateInvoiceFields" /\ lastCall'.outcome = "ok"
       /\ lastCall'.fields.keys \cap {"totalAmount", "paidAmount"} # {} =>
       LET r == records'[<<lastCall'.supplierId, lastCall'.invoiceId>>]
           paid == OrZero(r.paidAmount)
           total == OrZero(r.totalAmount)
       IN
       /\ "totalAmount" \in lastCall'.fields.keys => r.totalAmount = lastCall'.fields.totalAmount
       /\ "paidAmount" \in lastCall'.fields.keys => r.paidAmount = lastCall'.fields.paidAmount
       /\ paid <= total + EPSILON
       /\ r.unpaidAmount = Max(0, total - paid)
       /\ r.paymentStatus = derivePaymentStatus(paid, total)]_vars

\* C20: paymentHistory is append-only.  No step removes, reorders or alters an entry; a
\* successful updatePaymentStatus adds exactly one entry at the end, with the amount
\* applied (the amount sent, or the unpaid balance when none was sent) and the caller;
\* every other step (a failed request, updateInvoiceFields, processing) leaves the
\* history as it is.
C20_HistoryAppendOnly ==
  [][\A key \in DOMAIN records :
       LET h == records[key].paymentHistory
           after == records'[key].paymentHistory
           paid == /\ lastCall'.op = "updatePaymentStatus"
                   /\ lastCall'.outcome = "ok"
                   /\ key = <<lastCall'.supplierId, lastCall'.invoiceId>>
           balance == OrZero(records[key].totalAmount) - OrZero(records[key].paidAmount)
       IN
       /\ Len(after) >= Len(h)
       /\ SubSeq(after, 1, Len(h)) = h
       /\ paid => /\ Len(after) = Len(h) + 1
                  /\ after[Len(after)].recordedBy = lastCall'.uid
                  /\ after[Len(after)].amount =
                       IF lastCall'.amount # NoAmount THEN lastCall'.amount ELSE balance
       /\ ~paid => after = h]_vars

\* A second payment was recorded on a record that was edited after its first payment.
C20_Witness ==
  /\ lastCall.op = "updatePaymentStatus"
  /\ lastCall.outcome = "ok"
  /\ Len(RecordOfCall(lastCall).paymentHistory) = 2
  /\ RecordOfCall(lastCall).lastEditedBy # NoUid
  /\ RecordOfCall(lastCall).paymentHistory[1].amount
       # RecordOfCall(lastCall).paymentHistory[2].amount

\* C15: a full payment without amount ({action: 'pay'}) by the owner on a record whose
\* totalAmount is positive and whose paymentStatus is not paid succeeds and leaves
\* paidAmount = totalAmount, unpaidAmount = 0 and paymentStatus = paid.
C15_FullPaymentSettles ==
  [][lastCall'.op = "updatePaymentStatus" /\ lastCall'.action = "pay"
       /\ lastCall'.amount = NoAmount
       /\ RecordOfCall(lastCall').exists
       /\ RecordOfCall(lastCall').uploadedBy = lastCall'.uid
       /\ FloatLess(FloatZero, RecordOfCall(lastCall').totalAmount)
       /\ RecordOfCall(lastCall').paymentStatus # "paid" =>
       LET after == records'[<<lastCall'.supplierId, lastCall'.invoiceId>>] IN
       /\ lastCall'.outcome = "ok"
       /\ after.paidAmount = after.totalAmount
       /\ after.unpaidAmount = FloatZero
       /\ after.paymentStatus = "paid"]_vars

\* C15 in exact decimal arithmetic (the fixed-point amounts of the other specifications).
C15_ExactArithmetic ==
  [][lastCall'.op = "updatePaymentStatus" /\ lastCall'.action = "pay"
       /\ lastCall'.amount = NoAmount
       /\ RecordOfCall(lastCall').exists
       /\ RecordOfCall(lastCall').uploadedBy = lastCall'.uid
       /\ RecordOfCall(lastCall').totalAmount # NullNum
       /\ RecordOfCall(lastCall').totalAmount > 0
       /\ RecordOfCall(lastCall').paymentStatus # "paid" =>
       LET after == records'[<<lastCall'.supplierId, lastCall'.invoiceId>>] IN
       /\ lastCall'.outcome = "ok"
       /\ after.paidAmount = after.totalAmount
       /\ after.unpaidAmount = 0
       /\ after.paymentStatus = "paid"]_vars

\* C21: the record of an invoice is written by processing only when it is created: once
\* it exists, no step of any later processing invocation (reprocessing of the session
\* after an error and a reset included) changes a field of it; paymentStatus, paidAmount,
\* unpaidAmount and paymentHistory change only by updatePaymentStatus and
\* updateInvoiceFields.
C21_RecordWrittenOnce ==
  [][\A key \in SupplierIds \X SessionIds :
       records[key].exists /\ records'[key] # records[key] =>
         lastCall'.op \in {"updatePaymentStatus", "updateInvoiceFields"}]_vars

\* C22: every record created by a successful processing run has, right after its
\* creation, paymentStatus = unpaid, paidAmount = 0 and unpaidAmount = totalAmount.
C22_CreatedUnpaid ==
  [][\A key \in SupplierIds \X SessionIds :
       ~records[key].exists /\ records'[key].exists =>
         /\ records'[key].paymentStatus = PAYMENT_STATUS.unpaid
         /\ records'[key].paidAmount = 0
         /\ records'[key].unpaidAmount = records'[key].totalAmount]_vars

\* C22 without the stored paidAmount: the created record is unpaid, its unpaidAmount is
\* its totalAmount, and paidAmount is absent, which the ledger reads as 0.
C22_CreatedUnpaidAbsentPaid ==
  [][\A key \in SupplierIds \X SessionIds :
       ~records[key].exists /\ records'[key].exists =>
         /\ records'[key].paymentStatus = PAYMENT_STATUS.unpaid
         /\ records'[key].paidAmount = NullNum
         /\ OrZero(records'[key].paidAmount) = 0
         /\ records'[key].paymentHistory = <<>>
         /\ records'[key].unpaidAmount = records'[key].totalAmount]_vars

\* C23: processing can be run again after a partial failure.  When an invocation finds
\* that an earlier one already wrote the session's record from the same recognition
\* result (the session did not end in done, was reset and became ready again) and none
\* of its own steps throws, it leaves the session in status done with exactly one record.
C23_RerunEndsDone ==
  [][\A s \in Solo, k \in Deliveries :
       /\ inv[s][k].pc # "finished"
       /\ inv'[s][k].pc = "finished"
       /\ inv'[s][k].rerun
       /\ sessions'[s].errorMessage # "processing_failed"
       => /\ sessions'[s].status = INVOICE_STATUS.done
          /\ Cardinality({id \in SupplierIds : records'[<<id, s>>].exists}) = 1]_vars

\* C24: notification is best-effort.  Once the record is written and the session is
\* marked done, the notification step of the invocation, whether it succeeds or fails
\* (user lookup, send, token cleanup), leaves the session done and the record unchanged.
C24_NotificationBestEffort ==
  [][\A s \in SessionIds, k \in Deliveries :
       inv[s][k].pc = "notify" /\ inv'[s][k] # inv[s][k] =>
         /\ sessions'[s].status = INVOICE_STATUS.done
         /\ sessions'[s] = sessions[s]
         /\ records' = records]_vars

\* C25: runInvoiceOcr makes at most 3 attempts.  It returns the result of the first
\* attempt that produces one and makes no further attempt; an attempt that throws or
\* produces nothing is followed by a new attempt; when all 3 attempts fail it throws the
\* error of the last attempt.
C25_ExtractRetries ==
  lastCall.op = "runInvoiceOcr" =>
    LET o == lastCall.outcomes
        a == lastCall.answer
        producing == {n \in 1..3 : o[n].kind = "result"}
    IN
    /\ a.attempts \in 1..3
    /\ \A n \in 1..(a.attempts - 1) : o[n].kind # "result"
    /\ IF producing # {}
       THEN LET first == CHOOSE n \in producing : \A m \in producing : n <= m IN
            /\ a.kind = "returned"
            /\ a.value = o[first].value
            /\ a.attempts = first
       ELSE /\ a.kind = "thrown"
            /\ a.attempts = 3
            /\ a.error = IF o[3].kind = "throw" THEN o[3].error ELSE NoResultError

C25_Witness ==
  /\ lastCall.op = "runInvoiceOcr"
  /\ lastCall.outcomes[1].kind = "throw"
  /\ lastCall.outcomes[2].kind = "empty"
  /\ lastCall.outcomes[3].kind = "result"
  /\ lastCall.answer.kind = "returned"
  /\ lastCall.answer.attempts = 3

\* C26: a session in status error with all its pages registered is retried by resetting
\* its status to pending: after the reset, without a further page registration, the
\* session becomes ready again (and processing starts anew).
C26_ResetLeadsToReady ==
  \A s \in Solo :
    (sessions[s].status = INVOICE_STATUS.pending /\ AllPagesUploaded(sessions[s]))
      ~> (sessions[s].status = INVOICE_STATUS.ready)

\* C27: supplier profiles are first-write-wins per field.  Whatever the sequence of
\* upserts for a supplier id, a field (name, tax number, category) that is not null is
\* never changed by a later upsert; an upsert only fills fields that are null, with the
\* value it carries, or creates the profile.
C27_FirstWriteWins ==
  [][\A id \in SupplierIds :
       LET old == suppliers[id]
           new == suppliers'[id] IN
       /\ old.exists => new.exists
       /\ old.exists /\ old.name # <<>> => new.name = old.name
       /\ old.exists /\ old.supplierTaxNumber # <<>> =>
            new.supplierTaxNumber = old.supplierTaxNumber
       /\ old.exists /\ old.supplierCategory # <<>> =>
            new.supplierCategory = old.supplierCategory
       /\ new # old =>
            /\ lastCall'.op = "ensureSupplierProfile" /\ lastCall'.supplierId = id
            /\ new.name \in {old.name, lastCall'.supplierName}
            /\ new.supplierTaxNumber \in {old.supplierTaxNumber, lastCall'.supplierTaxNumber}
            /\ new.supplierCategory \in {old.supplierCategory, lastCall'.supplierCategory}]_vars

C27_Witness ==
  /\ lastCall.op = "ensureSupplierProfile"
  /\ lastCall.supplierName = <<"A","C","M","E"," ","S","A">>
  /\ lastCall.supplierCategory = <<"f","u","e","l">>
  /\ suppliers[lastCall.supplierId].name = <<"A","c","m","e">>
  /\ suppliers[lastCall.supplierId].supplierTaxNumber = <<"0","9","4">>
  /\ suppliers[lastCall.supplierId].supplierCategory = <<"f","u","e","l">>

\* C28: an extracted amount in grouped European notation is stored as its dot-decimal
\* value (totalAmount "1.234,56" gives 1234.56), and an amount that cannot be parsed is
\* stored as null; no amount makes the conversion fail.
C28_AmountsNormalized ==
  lastCall.op = "parseAmount" =>
    /\ lastCall.value = <<"1",".","2","3","4",",","5","6">> =>
         lastCall.result = 1234 * Scale + 56000
    /\ GroupedEuropean(lastCall.value) =>
         lastCall.result = NumberOf(normalizeEuropeanDecimals(lastCall.value))
    /\ (\A i \in 1..Len(lastCall.value) : lastCall.value[i] \notin Digits) =>
         lastCall.result = NullNum

\* C28 for amounts that are not in grouped European notation: a text without digits, or
\* whose digits, dots and minus signs do not form a number, gives null, and a plain
\* dot-decimal amount gives its value.
C28_PlainAndUnparseable ==
  lastCall.op = "parseAmount" =>
    /\ (\A i \in 1..Len(lastCall.value) : lastCall.value[i] \notin Digits) =>
         lastCall.result = NullNum
    /\ lastCall.value = <<"1","2",".","3","4",".","5","6">> => lastCall.result = NullNum
    /\ lastCall.value = <<"1","2","3","4",".","5","6">> =>
         lastCall.result = 1234 * Scale + 56000
    /\ lastCall.value = <<"1",".","2","3","4",",","5","6">> =>
         lastCall.result = 1 * Scale + 23456

\* C29: the pages passed to the recognition are all pages of the session when it has at
\* most 2 pages, and otherwise exactly two: the page with the lowest pageNumber and the
\* page with the highest pageNumber, in that order, whatever the order of the uploads.
C29_FirstAndLastPage ==
  lastCall.op = "buildCombinedPdfFromPages" =>
    LET d == sessions[lastCall.invoiceId]
        registered == {d.pages[i] : i \in 1..Len(d.pages)}
        chosen == lastCall.pagesToOcr
        Entry(n) == [pageNumber |-> chosen[n].pageNumber, objectName |-> chosen[n].objectName]
    IN
    IF Cardinality(registered) <= 2
    THEN /\ Len(chosen) = Cardinality(registered)
         /\ {Entry(n) : n \in 1..Len(chosen)} = registered
    ELSE /\ Len(chosen) = 2
         /\ Entry(1) \in registered /\ Entry(2) \in registered
         /\ \A e \in registered : Entry(1).pageNumber <= e.pageNumber
         /\ \A e \in registered : e.pageNumber <= Entry(2).pageNumber

C29_Witness ==
  /\ lastCall.op = "buildCombinedPdfFromPages"
  /\ sessions[lastCall.invoiceId].totalPages = 3
  /\ Len(lastCall.pagesToOcr) = 2
  /\ lastCall.pagesToOcr[1].objectName = <<"s1", 1, "b">>
  /\ lastCall.pagesToOcr[2].objectName = <<"s1", 3, "a">>

\* C30: the combined PDF holds the pages of the session in ascending pageNumber order,
\* whatever the order in which they were registered; a page that is itself a PDF of
\* several pages contributes all of them, in their order, at the place of its pageNumber.
C30_CombinedInPageOrder ==
  lastCall.op = "buildCombinedPdfFromPages" =>
    LET d == sessions[lastCall.invoiceId]
        combined == lastCall.combinedPdf
        expected == UNION { {[objectName |-> d.pages[i].objectName, index |-> n] :
                               n \in 1..(IF d.pages[i].objectName[3] = "b" THEN PdfPageCount
                                         ELSE 1)} : i \in 1..Len(d.pages) }
    IN
    /\ {combined[i] : i \in 1..Len(combined)} = expected
    /\ Len(combined) = Cardinality(expected)
    /\ \A i, j \in 1..Len(combined) :
         i < j => \/ combined[i].objectName[2] < combined[j].objectName[2]
                  \/ /\ combined[i].objectName = combined[j].objectName
                     /\ combined[i].index < combined[j].index

C30_Witness ==
  /\ lastCall.op = "buildCombinedPdfFromPages"
  /\ sessions[lastCall.invoiceId].totalPages = 3
  /\ Len(lastCall.combinedPdf) = 4
  /\ lastCall.combinedPdf[1].objectName = <<"s1", 1, "a">>
  /\ lastCall.combinedPdf[2] = [objectName |-> <<"s1", 2, "b">>, index |-> 1]
  /\ lastCall.combinedPdf[3] = [objectName |-> <<"s1", 2, "b">>, index |-> 2]
  /\ lastCall.combinedPdf[4].objectName = <<"s1", 3, "a">>

C32_PagesWithinTotal ==
  \A s \in SessionIds :
    LET d == sessions[s] IN
    d.exists =>
      /\ \A p \in d.uploadedPages : 1 <= p /\ p <= d.totalPages
      /\ \A n \in 1..Len(d.pages) :
           1 <= d.pages[n].pageNumber /\ d.pages[n].pageNumber <= d.totalPages
      /\ d.status # INVOICE_STATUS.pending <=> d.uploadedPages = 1..d.totalPages
      /\ d.status \in {INVOICE_STATUS.ready, INVOICE_STATUS.processing}
           => d.uploadedPages = 1..d.totalPages

C32_Witness ==
  /\ sessions["s1"].totalPages = 2
  /\ sessions["s1"].status = INVOICE_STATUS.processing
  /\ sessions["s1"].uploadedPages = {1, 2}
  /\ Len(sessions["s1"].pages) = 2

\* C33: in the build that checks for duplicates, no two records of different sessions
\* carry the same supplier id and the same known invoice number, also when two sessions
\* whose recognition gives the same supplier and number are processed concurrently.
C33_UniqueSupplierAndNumber ==
  build = "part_004" =>
    \A id \in SupplierIds : \A s, t \in SessionIds :
      (/\ s # t
       /\ records[<<id, s>>].exists /\ records[<<id, t>>].exists
       /\ records[<<id, s>>].invoiceNumber # <<>>)
      => records[<<id, s>>].invoiceNumber # records[<<id, t>>].invoiceNumber

\* C34: in every reachable state of every record, whatever the sequence of
\* updatePaymentStatus and updateInvoiceFields calls, paidAmount (0 when it is absent) is
\* the sum of the amounts of the entries of paymentHistory.
C34_PaidIsSumOfHistory ==
  \A key \in RecordKeys :
    records[key].exists =>
      OrZero(records[key].paidAmount) = SumOfAmounts(records[key].paymentHistory)

\* C35: updateInvoiceFields changes a record only when the caller is the user recorded
\* in uploadedBy or the record has no such user; a call by any other user is refused
\* and leaves the record as it was.
C35_EditOwnerOnly ==
  [][lastCall'.op = "updateInvoiceFields" =>
       LET r == RecordOfCall(lastCall') IN
       /\ r.exists /\ r.uploadedBy # NoUid /\ r.uploadedBy # lastCall'.uid =>
            lastCall'.outcome # "ok"
       /\ \A key \in DOMAIN records :
            records'[key] # records[key] => r.uploadedBy \in {NoUid, lastCall'.uid}]_vars

\* C36: the ownerUid of a session never changes once it is set; getSignedUploadUrl for an
\* existing session whose ownerUid is another user fails and answers with no signed URL;
\* and a page is registered in a session only from an upload whose signed URL was asked
\* for by the session's owner.
C36_OnlyOwnerUploads ==
  [][/\ \A s \in SessionIds :
          sessions[s].ownerUid # NoUid => sessions'[s].ownerUid = sessions[s].ownerUid
     /\ lastCall'.op = "getSignedUploadUrl" =>
          LET d == sessions[lastCall'.invoiceId] IN
          d.exists /\ d.ownerUid # NoUid /\ d.ownerUid # lastCall'.uid
            => lastCall'.outcome # "ok"
     /\ (lastCall'.op = "processUploadedInvoice" /\ lastCall'.outcome = "ok") =>
          sessions'[lastCall'.invoiceId].ownerUid = lastCall'.uid]_vars

\* The consequence alone: a page registered from an upload is the upload of the owner.
C36_RegisteredByOwner ==
  [][(lastCall'.op = "processUploadedInvoice" /\ lastCall'.outcome = "ok") =>
        sessions'[lastCall'.invoiceId].ownerUid = lastCall'.uid]_vars

\* The ownerUid alone: once set it never changes.
C36_OwnerNeverChanges ==
  [][\A s \in SessionIds :
        sessions[s].ownerUid # NoUid => sessions'[s].ownerUid = sessions[s].ownerUid]_vars

\* C37: whenever the status of a session is done, processedInvoicePath names an existing
\* record of that session; the step that writes done is taken by an invocation that has
\* written this record before, so the record exists already when done is written.
C37_DoneHasRecord ==
  [][\A s \in SessionIds :
       sessions'[s].status = INVOICE_STATUS.done =>
         LET path == sessions'[s].processedInvoicePath IN
         /\ path \in DOMAIN records
         /\ records'[path].exists
         /\ records'[path].invoiceId = s
         /\ sessions[s].status # INVOICE_STATUS.done =>
              /\ records[path].exists
              /\ records[path].invoiceId = s
              /\ \E k \in Deliveries :
                   /\ inv[s][k].pc = "recorded"
                   /\ inv'[s][k].pc # "recorded"
                   /\ path = <<SupplierIdOf(inv[s][k].ocr), s>>]_vars

C37_Witness ==
  /\ sessions["s1"].status = INVOICE_STATUS.done
  /\ sessions["s1"].processedInvoicePath \in DOMAIN records
  /\ records[sessions["s1"].processedInvoicePath].exists
  /\ records[sessions["s1"].processedInvoicePath].invoiceId = "s1"

\* C38: for every session in status done, the rawFilePaths of its record are the object
\* names of the entries of the session's pages list, in pageNumber order, also after a
\* later registration of a page of that session.
C38_SourcesMatchPages ==
  \A s \in SessionIds :
    sessions[s].status = INVOICE_STATUS.done =>
      records[sessions[s].processedInvoicePath].rawFilePaths = ObjectNames(sessions[s].pages)

\* C39: an updateInvoiceFields request whose patch holds a string currency, alone or with
\* other fields that are valid, passes the validation of the request: it is not refused
\* as invalid, and on an existing record it is answered ok.
C39_CurrencyEditable ==
  [][(/\ lastCall'.op = "updateInvoiceFields"
      /\ "currency" \in lastCall'.fields.keys
      /\ lastCall'.fields.keys \subseteq EDITABLE_INVOICE_FIELDS \cup {"currency"}
      /\ \A f \in {"totalAmount", "paidAmount"} :
           f \in lastCall'.fields.keys =>
             lastCall'.fields[f] # NullNum /\ lastCall'.fields[f] >= 0)
     => /\ lastCall'.outcome # "invalid_request"
        /\ RecordOfCall(lastCall').exists => lastCall'.outcome = "ok"]_vars

====
